---- MODULE Spec2Model ----
(***************************************************************************)
(* A model of the NCP repository (CSML-IIT-UCL/NCP):                       *)
(*   - the two benchmark drivers (NCP_benchmarks.py, KMN_benchmarks.py),   *)
(*     as one operating-system process at a time over a shared working     *)
(*     directory (specification Spec);                                     *)
(*   - the constructor of the symmetric Gaussian-mixture simulator         *)
(*     (symmGMM.py, specification SpecGMM);                                *)
(*   - a DeepSVD object under fit and its query methods (model.py,         *)
(*     specification SpecSVD);                                             *)
(*   - the constructor of MLP, with the constructor of IterativeWhitening  *)
(*     it calls (nn/layers.py, specification SpecMLP);                     *)
(*   - an IterativeWhitening layer under forward calls (nn/layers.py,      *)
(*     specification SpecIW);                                              *)
(*   - the values the rank filter and the queries of DeepSVD compute       *)
(*     (model.py, specification SpecQ);                                    *)
(*   - the data one KMN sweep draws and splits (KMN_benchmarks.py,         *)
(*     specification SpecSplit);                                           *)
(*   - two KMN sweeps running at the same time and their best-model        *)
(*     checkpoint files (KMN_benchmarks.py, specification SpecCkpt).       *)
(* Each part has its own specification; the variables of the other parts   *)
(* stay at their initial value.                                            *)
(***************************************************************************)
EXTENDS Integers, Sequences, FiniteSets, TLC

(***************************************************************************)
(* The state.                                                              *)
(***************************************************************************)
\* the benchmark drivers: one process at a time over a working directory
VARIABLES
    fs,                 \* the working directory: path -> file content
    script,             \* which driver the current process runs
    argv_dataset,       \* the --dataset flag on its command line
    pc,                 \* where the process is
    density_simulator,  \* the simulator class picked by __main__
    results_df,         \* run_experiment's local results_df
    loaded,             \* results_df as it was after the start-up load
    n_idx,              \* position in n_training_samples (1-based)
    seed,               \* the seed of the inner loop
    fitted,             \* (n, seed) pairs this process has trained a model for
    effects             \* what this process has done to the outside world

\* the constructor of SymmGaussianMixture
VARIABLES
    module_G,       \* the module-level name G of symmGMM.py
    gmm_pc,         \* where the constructor call is
    gmm_args,       \* the arguments of the constructor call
    gmm_self,       \* the fields of the instance under construction
    gmm_built       \* the simulator built by the call before, if any

\* a DeepSVD object and the call in progress on it
VARIABLES
    svd,            \* the fields of the object
    svd_pc,         \* where the call in progress is
    svd_fit,        \* the arguments and locals of the fit call
    svd_call        \* the last method called, with its arguments

\* the constructor of MLP
VARIABLES
    mlp_pc,         \* where the constructor call is
    mlp_args,       \* its arguments
    mlp_layer_size, \* the local layer_size
    mlp_layer,      \* the loop variable layer
    mlp_layers,     \* the local layers
    iw_self         \* the IterativeWhitening instance under construction

\* an IterativeWhitening layer and the forward call in progress on it
VARIABLES
    python_O,       \* whether the interpreter runs with -O (asserts removed)
    iw,             \* the layer: its attributes and buffers
    iw_pc,          \* where the call in progress is
    iw_call         \* the locals of the call: the input and what was computed

\* the values the query methods of a fitted DeepSVD compute
VARIABLES
    q_model,        \* the fitted object: training data, encoders, sigma
    q_call,         \* the method called and its arguments
    q_ret           \* what the call returned or raised

\* the data of one KMN sweep
VARIABLES
    sp,             \* the sweep: simulator class, loaded table, loop position
    sp_data,        \* the pool simulate returned and the split made of it
    sp_hist         \* the splits the sweep has made

\* KMN sweeps running at the same time in one working directory
VARIABLES
    ck_fs,          \* the best-model checkpoint files: path -> content
    ck_proc         \* the processes: process -> its state

driverVars == <<fs, script, argv_dataset, pc, density_simulator, results_df,
                loaded, n_idx, seed, fitted, effects>>
gmmVars == <<module_G, gmm_pc, gmm_args, gmm_self, gmm_built>>
svdVars == <<svd, svd_pc, svd_fit, svd_call>>
mlpVars == <<mlp_pc, mlp_args, mlp_layer_size, mlp_layer, mlp_layers, iw_self>>
iwVars == <<python_O, iw, iw_pc, iw_call>>
qVars == <<q_model, q_call, q_ret>>
splitVars == <<sp, sp_data, sp_hist>>
ckptVars == <<ck_fs, ck_proc>>
vars == <<driverVars, gmmVars, svdVars, mlpVars, iwVars, qVars, splitVars,
         ckptVars>>

\* what the steps of one part leave alone
notDriver == <<gmmVars, svdVars, mlpVars, iwVars, qVars, splitVars, ckptVars>>
notGMM == <<driverVars, svdVars, mlpVars, iwVars, qVars, splitVars, ckptVars>>
notSVD == <<driverVars, gmmVars, mlpVars, iwVars, qVars, splitVars, ckptVars>>
notMLP == <<driverVars, gmmVars, svdVars, iwVars, qVars, splitVars, ckptVars>>
notIW == <<driverVars, gmmVars, svdVars, mlpVars, qVars, splitVars, ckptVars>>
notQ == <<driverVars, gmmVars, svdVars, mlpVars, iwVars, splitVars, ckptVars>>
notSplit == <<driverVars, gmmVars, svdVars, mlpVars, iwVars, qVars, ckptVars>>
notCkpt == <<driverVars, gmmVars, svdVars, mlpVars, iwVars, qVars, splitVars>>

(***************************************************************************)
(* Bounds of the model.                                                    *)
(***************************************************************************)
\* how many sizes of the training-set ladder a sweep visits
MaxLadder == 2
\* how many seeds per size a sweep visits
MaxSeeds == 2

Min(a, b) == IF a <= b THEN a ELSE b

(***************************************************************************)
(*                        THE BENCHMARK DRIVERS                            *)
(***************************************************************************)
\* ------------------------------------------------------------ command line
NoFlag == "<no --dataset flag>"
None == "None"

\* argparse defaults of --dataset
NCP_default_econ == "econ"
NCP_default == None
KMN_default == "econ"

\* args.dataset after parser.parse_args()
NCP_args_dataset(flag) == IF flag = NoFlag THEN NCP_default ELSE flag
KMN_args_dataset(flag) == IF flag = NoFlag THEN KMN_default ELSE flag

\* the if/elif chain of each __main__: dataset -> simulator class name,
\* "ValueError" for the else branch
NCP_select(dataset) ==
    CASE dataset = "econ" -> "EconDensity"
      [] dataset = "gaussian_mixture" -> "GaussianMixture"
      [] dataset = "linear_gaussian" -> "LinearGaussian"
      [] dataset = "arma_jump" -> "ArmaJump"
      [] dataset = "skew_normal" -> "SkewNormal"
      [] dataset = "linear_student_t" -> "LinearStudentT"
      [] OTHER -> "ValueError"

KMN_select(dataset) ==
    CASE dataset = "econ" -> "EconDensity"
      [] dataset = "gaussian_mixture" -> "GaussianMixture"
      [] dataset = "linear_gaussian" -> "LinearGaussian"
      [] dataset = "arma_jump" -> "ArmaJump"
      [] dataset = "skew_normal" -> "SkewNormal"
      [] dataset = "linear_student_t" -> "LinearStudentT"
      [] dataset = "LGGMD" -> "LGGMD"
      [] OTHER -> "ValueError"

\* the command lines the model tries
NCP_flags == {NoFlag, "econ", "LGGMD", "mnist"}
KMN_flags == {NoFlag, "econ", "mnist"}

\* ------------------------------------------------------------ sweep ranges
NCP_n_training_samples ==
    <<100, 200, 500, 1000, 2000, 5000, 10000, 20000, 50000, 100000>>
KMN_n_training_samples ==
    <<100, 200, 500, 1000, 2000, 5000, 10000, 20000, 50000, 100000>>
\* range(5) and np.arange(10)
NCP_n_seeds == 5
KMN_n_seeds == 10

NCP_ladder == SubSeq(NCP_n_training_samples, 1,
                     Min(MaxLadder, Len(NCP_n_training_samples)))
KMN_ladder == SubSeq(KMN_n_training_samples, 1,
                     Min(MaxLadder, Len(KMN_n_training_samples)))
NCP_seed_end == Min(MaxSeeds, NCP_n_seeds)
KMN_seed_end == Min(MaxSeeds, KMN_n_seeds)

\* ------------------------------------------------------------ files
Classes == {"EconDensity", "GaussianMixture", "LinearGaussian", "ArmaJump",
            "SkewNormal", "LinearStudentT", "LGGMD"}

\* filename = density_simulator().__class__.__name__ + '_NCP_results.pkl'
NCP_filename(cls) == <<cls, "_NCP_results.pkl">>
KMN_filename(cls) == <<cls, "_KMN_results.pkl">>

\* the path read at start-up and the path written after every seed
NCP_load_path(cls) == [dir |-> ".", name |-> NCP_filename(cls)]
NCP_save_path(cls) == [dir |-> ".", name |-> NCP_filename(cls)]
KMN_load_path(cls) == [dir |-> ".", name |-> KMN_filename(cls)]
KMN_save_path(cls) == [dir |-> "results", name |-> KMN_filename(cls)]

Paths == UNION {{NCP_load_path(c), NCP_save_path(c),
                 KMN_load_path(c), KMN_save_path(c)} : c \in Classes}

Absent == [kind |-> "absent", rows |-> <<>>]
\* opened for writing (truncated) and not yet completely written
Torn == [kind |-> "torn", rows |-> <<>>]
Table(rows) == [kind |-> "table", rows |-> rows]

\* os.path.isfile(filename)
IsFile(path) == fs[path].kind # "absent"

\* ------------------------------------------------------------ the table
\* results_df[(results_df['n_samples'] == n) & (results_df['seed'] == seed)]
RowsOf(df, n, s) ==
    {i \in 1..Len(df) : df[i].n_samples = n /\ df[i].seed = s}

\* the skip test of both drivers (NCP lines 92-94, KMN lines 37-39)
NCP_recorded_never(df, n, s) == FALSE
NCP_recorded_swapped(df, n, s) ==
    Len(df) > 0 /\ Cardinality(RowsOf(df, s, n)) > 0
NCP_recorded(df, n, s) ==
    Len(df) > 0 /\ Cardinality(RowsOf(df, n, s)) > 0
KMN_recorded(df, n, s) ==
    Len(df) > 0 /\ Cardinality(RowsOf(df, n, s)) > 0

\* the rows one (n, seed) adds: NCP one per postprocess mode, KMN one
NCP_postprocess == <<"None", "centering", "whitening">>
NCP_results(n, s) ==
    [k \in 1..Len(NCP_postprocess) |->
        [seed |-> s, n_samples |-> n, postprocess |-> NCP_postprocess[k]]]
KMN_result(n, s) == <<[seed |-> s, n_samples |-> n]>>

\* ------------------------------------------------------------ processes
Stopped == {"idle", "done", "killed", "ValueError", "UnpicklingError"}
Running == {"main", "run_experiment", "n_loop", "seed_loop", "fitted",
            "to_pickle", "writing"}

DriverInit ==
    /\ fs = [p \in Paths |-> Absent]
    /\ script = "none"
    /\ argv_dataset = NoFlag
    /\ pc = "idle"
    /\ density_simulator = "unset"
    /\ results_df = <<>>
    /\ loaded = <<>>
    /\ n_idx = 0
    /\ seed = 0
    /\ fitted = {}
    /\ effects = {}

\* python NCP_benchmarks.py [--dataset flag] / python KMN_benchmarks.py ...
Launch ==
    /\ pc \in Stopped
    /\ \E s \in {"NCP", "KMN"} :
         /\ script' = s
         /\ \E flag \in (IF s = "NCP" THEN NCP_flags ELSE KMN_flags) :
              argv_dataset' = flag
    /\ pc' = "main"
    /\ density_simulator' = "unset"
    /\ results_df' = <<>>
    /\ loaded' = <<>>
    /\ n_idx' = 0
    /\ seed' = 0
    /\ fitted' = {}
    /\ effects' = {}
    /\ UNCHANGED fs
    /\ UNCHANGED notDriver

\* the process is killed (Ctrl-C, job time limit, power loss)
Interrupt ==
    /\ pc \in Running
    /\ pc' = "killed"
    /\ UNCHANGED <<fs, script, argv_dataset, density_simulator, results_df,
                   loaded, n_idx, seed, fitted, effects>>
    /\ UNCHANGED notDriver

\* ---------------------------------------------------------------- NCP
NCP_Main ==
    /\ script = "NCP" /\ pc = "main"
    /\ LET cls == NCP_select(NCP_args_dataset(argv_dataset)) IN
         IF cls = "ValueError"
         THEN /\ pc' = "ValueError"
              /\ UNCHANGED density_simulator
         ELSE /\ pc' = "run_experiment"
              /\ density_simulator' = cls
    /\ UNCHANGED <<fs, script, argv_dataset, results_df, loaded, n_idx, seed,
                   fitted, effects>>
    /\ UNCHANGED notDriver

\* lines 31-41: the file name (which builds a simulator) and the start-up load
NCP_Load ==
    /\ script = "NCP" /\ pc = "run_experiment"
    /\ LET path == NCP_load_path(density_simulator) IN
         IF IsFile(path)
         THEN /\ effects' = effects \cup {"simulator", "isfile", "read_pickle"}
              /\ IF fs[path].kind = "table"
                 THEN /\ results_df' = fs[path].rows
                      /\ loaded' = fs[path].rows
                      /\ pc' = "n_loop"
                      /\ n_idx' = 1
                 ELSE /\ pc' = "UnpicklingError"
                      /\ UNCHANGED <<results_df, loaded, n_idx>>
         ELSE /\ effects' = effects \cup {"simulator", "isfile"}
              /\ results_df' = <<>>
              /\ loaded' = <<>>
              /\ pc' = "n_loop"
              /\ n_idx' = 1
    /\ UNCHANGED <<fs, script, argv_dataset, density_simulator, seed, fitted>>
    /\ UNCHANGED notDriver

\* lines 43-88: the next n, its data set and the model settings
NCP_NextN ==
    /\ script = "NCP" /\ pc = "n_loop"
    /\ IF n_idx <= Len(NCP_ladder)
       THEN /\ pc' = "seed_loop"
            /\ seed' = 0
            /\ effects' = effects \cup {"simulator"}
       ELSE /\ pc' = "done"
            /\ UNCHANGED <<seed, effects>>
    /\ UNCHANGED <<fs, script, argv_dataset, density_simulator, results_df,
                   loaded, n_idx, fitted>>
    /\ UNCHANGED notDriver

\* lines 90-94: an (n, seed) already in results_df is skipped
NCP_Skip ==
    /\ script = "NCP" /\ pc = "seed_loop"
    /\ seed < NCP_seed_end
    /\ NCP_recorded(results_df, NCP_ladder[n_idx], seed)
    /\ seed' = seed + 1
    /\ UNCHANGED <<fs, script, argv_dataset, pc, density_simulator, results_df,
                   loaded, n_idx, fitted, effects>>
    /\ UNCHANGED notDriver

\* lines 96-135: the model is built and trained
NCP_Fit ==
    /\ script = "NCP" /\ pc = "seed_loop"
    /\ seed < NCP_seed_end
    /\ ~NCP_recorded(results_df, NCP_ladder[n_idx], seed)
    /\ fitted' = fitted \cup {<<NCP_ladder[n_idx], seed>>}
    /\ effects' = effects \cup {"fit"}
    /\ pc' = "fitted"
    /\ UNCHANGED <<fs, script, argv_dataset, density_simulator, results_df,
                   loaded, n_idx, seed>>
    /\ UNCHANGED notDriver

\* lines 137-172: the three rows of this (n, seed) are appended to results_df
NCP_Results ==
    /\ script = "NCP" /\ pc = "fitted"
    /\ results_df' = results_df \o NCP_results(NCP_ladder[n_idx], seed)
    /\ pc' = "to_pickle"
    /\ UNCHANGED <<fs, script, argv_dataset, density_simulator, loaded, n_idx,
                   seed, fitted, effects>>
    /\ UNCHANGED notDriver

\* line 173, first half: to_pickle opens the file for writing
NCP_OpenWrite ==
    /\ script = "NCP" /\ pc = "to_pickle"
    /\ fs' = [fs EXCEPT ![NCP_save_path(density_simulator)] = Torn]
    /\ effects' = effects \cup {"to_pickle"}
    /\ pc' = "writing"
    /\ UNCHANGED <<script, argv_dataset, density_simulator, results_df, loaded,
                   n_idx, seed, fitted>>
    /\ UNCHANGED notDriver

\* line 173, second half: the table is written and the file closed
NCP_Dump ==
    /\ script = "NCP" /\ pc = "writing"
    /\ fs' = [fs EXCEPT ![NCP_save_path(density_simulator)] = Table(results_df)]
    /\ pc' = "seed_loop"
    /\ seed' = seed + 1
    /\ UNCHANGED <<script, argv_dataset, density_simulator, results_df, loaded,
                   n_idx, fitted, effects>>
    /\ UNCHANGED notDriver

\* line 90: the seed loop ends
NCP_SeedsDone ==
    /\ script = "NCP" /\ pc = "seed_loop"
    /\ seed >= NCP_seed_end
    /\ pc' = "n_loop"
    /\ n_idx' = n_idx + 1
    /\ UNCHANGED <<fs, script, argv_dataset, density_simulator, results_df,
                   loaded, seed, fitted, effects>>
    /\ UNCHANGED notDriver

\* ---------------------------------------------------------------- KMN
KMN_Main ==
    /\ script = "KMN" /\ pc = "main"
    /\ LET cls == KMN_select(KMN_args_dataset(argv_dataset)) IN
         IF cls = "ValueError"
         THEN /\ pc' = "ValueError"
              /\ UNCHANGED density_simulator
         ELSE /\ pc' = "run_experiment"
              /\ density_simulator' = cls
    /\ UNCHANGED <<fs, script, argv_dataset, results_df, loaded, n_idx, seed,
                   fitted, effects>>
    /\ UNCHANGED notDriver

\* lines 21-30
KMN_Load ==
    /\ script = "KMN" /\ pc = "run_experiment"
    /\ LET path == KMN_load_path(density_simulator) IN
         IF IsFile(path)
         THEN /\ effects' = effects \cup {"simulator", "isfile", "read_pickle"}
              /\ IF fs[path].kind = "table"
                 THEN /\ results_df' = fs[path].rows
                      /\ loaded' = fs[path].rows
                      /\ pc' = "n_loop"
                      /\ n_idx' = 1
                 ELSE /\ pc' = "UnpicklingError"
                      /\ UNCHANGED <<results_df, loaded, n_idx>>
         ELSE /\ effects' = effects \cup {"simulator", "isfile"}
              /\ results_df' = <<>>
              /\ loaded' = <<>>
              /\ pc' = "n_loop"
              /\ n_idx' = 1
    /\ UNCHANGED <<fs, script, argv_dataset, density_simulator, seed, fitted>>
    /\ UNCHANGED notDriver

\* lines 32-34
KMN_NextN ==
    /\ script = "KMN" /\ pc = "n_loop"
    /\ IF n_idx <= Len(KMN_ladder)
       THEN /\ pc' = "seed_loop"
            /\ seed' = 0
       ELSE /\ pc' = "done"
            /\ UNCHANGED seed
    /\ UNCHANGED <<fs, script, argv_dataset, density_simulator, results_df,
                   loaded, n_idx, fitted, effects>>
    /\ UNCHANGED notDriver

\* lines 35-73: an (n, seed) already in results_df is skipped; otherwise the
\* data of this seed are drawn and the estimator is built and fitted.  (One
\* action: results_df is empty after every start-up load the driver's own
\* files allow, so the skip branch has no step of its own to show.)
KMN_Seed ==
    /\ script = "KMN" /\ pc = "seed_loop"
    /\ seed < KMN_seed_end
    /\ IF KMN_recorded(results_df, KMN_ladder[n_idx], seed)
       THEN /\ seed' = seed + 1
            /\ UNCHANGED <<pc, fitted, effects>>
       ELSE /\ fitted' = fitted \cup {<<KMN_ladder[n_idx], seed>>}
            /\ effects' = effects \cup {"simulator", "fit"}
            /\ pc' = "fitted"
            /\ UNCHANGED seed
    /\ UNCHANGED <<fs, script, argv_dataset, density_simulator, results_df,
                   loaded, n_idx>>
    /\ UNCHANGED notDriver

\* lines 75-117
KMN_Results ==
    /\ script = "KMN" /\ pc = "fitted"
    /\ results_df' = results_df \o KMN_result(KMN_ladder[n_idx], seed)
    /\ pc' = "to_pickle"
    /\ UNCHANGED <<fs, script, argv_dataset, density_simulator, loaded, n_idx,
                   seed, fitted, effects>>
    /\ UNCHANGED notDriver

\* line 118, first half
KMN_OpenWrite ==
    /\ script = "KMN" /\ pc = "to_pickle"
    /\ fs' = [fs EXCEPT ![KMN_save_path(density_simulator)] = Torn]
    /\ effects' = effects \cup {"to_pickle"}
    /\ pc' = "writing"
    /\ UNCHANGED <<script, argv_dataset, density_simulator, results_df, loaded,
                   n_idx, seed, fitted>>
    /\ UNCHANGED notDriver

\* line 118, second half
KMN_Dump ==
    /\ script = "KMN" /\ pc = "writing"
    /\ fs' = [fs EXCEPT ![KMN_save_path(density_simulator)] = Table(results_df)]
    /\ pc' = "seed_loop"
    /\ seed' = seed + 1
    /\ UNCHANGED <<script, argv_dataset, density_simulator, results_df, loaded,
                   n_idx, fitted, effects>>
    /\ UNCHANGED notDriver

\* line 35: the seed loop ends
KMN_SeedsDone ==
    /\ script = "KMN" /\ pc = "seed_loop"
    /\ seed >= KMN_seed_end
    /\ pc' = "n_loop"
    /\ n_idx' = n_idx + 1
    /\ UNCHANGED <<fs, script, argv_dataset, density_simulator, results_df,
                   loaded, seed, fitted, effects>>
    /\ UNCHANGED notDriver

DriverNext ==
    \/ Launch
    \/ Interrupt
    \/ NCP_Main
    \/ NCP_Load
    \/ NCP_NextN
    \/ NCP_Skip
    \/ NCP_Fit
    \/ NCP_Results
    \/ NCP_OpenWrite
    \/ NCP_Dump
    \/ NCP_SeedsDone
    \/ KMN_Main
    \/ KMN_Load
    \/ KMN_NextN
    \/ KMN_Seed
    \/ KMN_Results
    \/ KMN_OpenWrite
    \/ KMN_Dump
    \/ KMN_SeedsDone

(***************************************************************************)
(*          THE SYMMETRIC GAUSSIAN-MIXTURE SIMULATOR (symmGMM.py)          *)
(*                                                                         *)
(* Real numbers are exact: the sampled means and covariance entries are    *)
(* integers counting halves, the weights are fractions <<num, den>> in     *)
(* lowest terms.  A numpy RandomState is a seed and the number of values   *)
(* drawn so far; what it draws is a fixed function of the two.             *)
(***************************************************************************)
\* most kernels a constructor call asks for
MaxKernels == 2
\* the number of different values a RandomState draws
RandMod == 13

\* ------------------------------------------------------------ arithmetic
Abs(a) == IF a < 0 THEN -a ELSE a

RECURSIVE GCD(_, _)
GCD(a, b) == IF b = 0 THEN a ELSE GCD(b, a % b)

\* fractions <<num, den>>, den > 0, in lowest terms
Frac(n, d) == LET g == GCD(Abs(n), d) IN <<n \div g, d \div g>>
FracAdd(a, b) == Frac(a[1] * b[2] + b[1] * a[2], a[2] * b[2])
FracDiv(a, b) == Frac(a[1] * b[2], a[2] * b[1])

RECURSIVE SumInts(_)
SumInts(q) == IF q = <<>> THEN 0 ELSE q[1] + SumInts(Tail(q))

RECURSIVE SumFracs(_)
SumFracs(q) == IF q = <<>> THEN <<0, 1>> ELSE FracAdd(q[1], SumFracs(Tail(q)))

\* matrices are sequences of rows
Dot(u, v) == SumInts([i \in 1..Len(u) |-> u[i] * v[i]])
Col(B, j) == [i \in 1..Len(B) |-> B[i][j]]
MatVec(A, v) == [i \in 1..Len(A) |-> Dot(A[i], v)]
MatMul(A, B) ==
    [i \in 1..Len(A) |-> [j \in 1..Len(B[1]) |-> Dot(A[i], Col(B, j))]]

\* np.concatenate of a list of arrays along axis 0
RECURSIVE Concatenate(_)
Concatenate(qs) == IF qs = <<>> THEN <<>> ELSE qs[1] \o Concatenate(Tail(qs))

\* ------------------------------------------------------------ escnn groups
\* The groups the model constructs simulators for, each with the two
\* representations it is called with.  C2 = {e, r}; C4 = rotations by
\* quarter turns, element k the k-th power of the generator; D2 = C2 x C2,
\* element 2a + b; SO2 is continuous.  All representations are
\* one-dimensional: an element acts by +1 or -1.
FiniteGroups == {"C2", "C4", "D2"}
GroupNames == FiniteGroups \cup {"SO2"}

Sign(k) == IF k % 2 = 0 THEN 1 ELSE -1

Group(name) ==
    CASE name = "C2" ->
           [continuous |-> FALSE, elements |-> <<0, 1>>, identity |-> 0]
      [] name = "C4" ->
           [continuous |-> FALSE, elements |-> <<0, 1, 2, 3>>, identity |-> 0]
      [] name = "D2" ->
           [continuous |-> FALSE, elements |-> <<0, 1, 2, 3>>, identity |-> 0]
      [] OTHER ->
           [continuous |-> TRUE, elements |-> <<>>, identity |-> 0]

\* G.order()
Order(name) == Len(Group(name).elements)

\* ~g
Inverse(name, g) == IF name = "C4" THEN (4 - g) % 4 ELSE g

\* rep_X(g) and rep_Y(g) as matrices
rep_X(name, g) ==
    CASE name = "D2" -> << <<Sign(g \div 2)>> >>
      [] OTHER -> << <<Sign(g)>> >>
rep_Y(name, g) ==
    CASE name = "C2" -> << <<Sign(g)>> >>
      [] name = "D2" -> << <<Sign(g)>> >>
      [] OTHER -> << <<1>> >>

rep_X_size(name) == Len(rep_X(name, 0))
rep_Y_size(name) == Len(rep_Y(name, 0))

\* directsum([rep_X, rep_Y])(g): the block-diagonal matrix
rep(name, g) ==
    LET dx == rep_X_size(name)
        dy == rep_Y_size(name)
    IN  [i \in 1..(dx + dy) |-> [j \in 1..(dx + dy) |->
           IF i <= dx /\ j <= dx THEN rep_X(name, g)[i][j]
           ELSE IF i > dx /\ j > dx THEN rep_Y(name, g)[i - dx][j - dx]
           ELSE 0]]

\* ------------------------------------------------------------ numpy.random
\* np.random.RandomState(seed=seed)
RandomState(s) == [seed |-> s, pos |-> 0]

\* the k-th value of the stream of a seed, in 0..RandMod-1
Stream(s, k) == ((s + 1) * (k + 1) + k * k) % RandMod

\* rs.random(n): n values in (0, 1) as numerators over RandMod + 1
Random(rs, n) == [i \in 1..n |-> Stream(rs.seed, rs.pos + i) + 1]

\* rs.normal(loc, scale, size) flattened: loc + scale * z, z in -2..2
Normal(rs, loc, scale, n) ==
    [i \in 1..n |-> loc + scale * ((Stream(rs.seed, rs.pos + i) % 5) - 2)]

Advance(rs, n) == [rs EXCEPT !.pos = rs.pos + n]

\* the seed of the parameter stream (line 26)
ParamSeed == 20
random_state_params_by_data_seed(random_seed) == RandomState(random_seed)
random_state_params(random_seed) == RandomState(ParamSeed)

\* ------------------------------------------------------------ the constructor
\* _sample_weights (lines 102-110): weights / np.sum(weights)
sample_weights(rs, n) ==
    LET w == Random(rs, n) IN [i \in 1..n |-> Frac(w[i], SumInts(w))]

\* reshape of a flat sequence to [n, d] and to (n, d, d)
Reshape2(flat, n, d) ==
    [k \in 1..n |-> [i \in 1..d |-> flat[(k - 1) * d + i]]]
Reshape3(flat, n, d) ==
    [k \in 1..n |-> [i \in 1..d |-> [j \in 1..d |->
        flat[(k - 1) * d * d + (i - 1) * d + j]]]]

\* project_to_pos_semi_def of NCP.cde_fork.utils.misc, on a batch of 1 x 1
\* blocks: the nearest positive semi-definite matrix of [[c]] is [[max(c, 0)]]
project_to_pos_semi_def(batch) ==
    [k \in 1..Len(batch) |->
        [i \in 1..Len(batch[k]) |-> [j \in 1..Len(batch[k]) |->
            IF batch[k][i][j] < 0 THEN 0 ELSE batch[k][i][j]]]]

AbsBatch(batch) ==
    [k \in 1..Len(batch) |->
        [i \in 1..Len(batch[k]) |-> [j \in 1..Len(batch[k]) |->
            Abs(batch[k][i][j])]]]

\* np.einsum('ij,...j->...i', A, means)
EinsumMeans(A, means) == [k \in 1..Len(means) |-> MatVec(A, means[k])]
\* np.einsum('ij,kjm,mn->kin', A, C, B)
EinsumCov(A, C, B) == [k \in 1..Len(C) |-> MatMul(MatMul(A, C[k]), B)]

\* self.weights /= np.sum(self.weights)  (line 78)
Renormalize_skipped(w) == w
Renormalize(w) == [i \in 1..Len(w) |-> FracDiv(w[i], SumFracs(w))]

\* self.G.continuous as line 64 reads it
Bool(b) == IF b THEN "True" ELSE "False"
G_continuous_global(a) ==
    IF module_G = "unbound" THEN "NameError"
    ELSE Bool(Group(module_G).continuous)
G_continuous(a) == Bool(Group(a.group).continuous)

NoSim == [built |-> FALSE]
NoArgs == [n_kernels |-> 0, group |-> "none", means_std |-> 0,
           random_seed |-> 0]
NoSelf == [random_state |-> RandomState(0),
           random_state_params |-> RandomState(0),
           n_kernels |-> 0, ndim_x |-> 0, ndim_y |-> 0,
           weights |-> <<>>, means |-> <<>>,
           covariances_x |-> <<>>, covariances_y |-> <<>>]

\* means_std in halves: the default 1.5 and the 5 of __main__
MeansStds == {3, 10}
RandomSeeds == {0, 42}

GMMIdle ==
    /\ gmm_pc = "none"
    /\ gmm_args = NoArgs
    /\ gmm_self = NoSelf
    /\ gmm_built = NoSim

\* The module is imported (G is not a name of it) or run as a script, whose
\* line 123 binds G to the group the representations are taken from.
GMMInit ==
    /\ module_G \in {"unbound"} \cup GroupNames
    /\ GMMIdle

\* lines 21-42: SymmGaussianMixture(n_kernels, rep_X, rep_Y, means_std, seed)
GMM_Begin ==
    /\ gmm_pc \in {"none", "constructed", "NameError", "NotImplementedError"}
    /\ \E n \in 1..MaxKernels, std \in MeansStds, rseed \in RandomSeeds,
          grp \in GroupNames :
         /\ module_G # "unbound" => grp = module_G
         /\ gmm_args' = [n_kernels |-> n, group |-> grp, means_std |-> std,
                         random_seed |-> rseed]
         /\ gmm_self' = [NoSelf EXCEPT
                !.random_state = RandomState(rseed),
                !.random_state_params = random_state_params(rseed),
                !.n_kernels = n,
                !.ndim_x = rep_X_size(grp),
                !.ndim_y = rep_Y_size(grp)]
    /\ gmm_built' = IF gmm_pc = "constructed"
                    THEN [built |-> TRUE, args |-> gmm_args,
                          weights |-> gmm_self.weights,
                          means |-> gmm_self.means,
                          covariances_x |-> gmm_self.covariances_x,
                          covariances_y |-> gmm_self.covariances_y]
                    ELSE gmm_built
    /\ gmm_pc' = "init"
    /\ UNCHANGED module_G
    /\ UNCHANGED notGMM

\* lines 43-62: the weights, the means and the two covariance blocks
GMM_Sample ==
    /\ gmm_pc = "init"
    /\ LET n == gmm_args.n_kernels
           dx == gmm_self.ndim_x
           dy == gmm_self.ndim_y
           rs0 == gmm_self.random_state_params
           rs1 == Advance(rs0, n)
           rs2 == Advance(rs1, n * (dx + dy))
           rs3 == Advance(rs2, n * dx * dx)
           rs4 == Advance(rs3, n * dy * dy)
       IN  gmm_self' = [gmm_self EXCEPT
             !.weights = sample_weights(rs0, n),
             !.means = Reshape2(Normal(rs1, 0, gmm_args.means_std,
                                       n * (dx + dy)), n, dx + dy),
             !.covariances_x = project_to_pos_semi_def(AbsBatch(
                 Reshape3(Normal(rs2, 2, 1, n * dx * dx), n, dx))),
             !.covariances_y = project_to_pos_semi_def(AbsBatch(
                 Reshape3(Normal(rs3, 2, 1, n * dy * dy), n, dy))),
             !.random_state_params = rs4]
    /\ gmm_pc' = "sampled"
    /\ UNCHANGED <<module_G, gmm_args, gmm_built>>
    /\ UNCHANGED notGMM

\* the non-identity elements of G in the order of G.elements (lines 69-70)
NonIdentity(name) ==
    SelectSeq(Group(name).elements, LAMBDA g : g # Group(name).identity)

\* lines 64-80: one copy of every kernel per group element, or the error
GMM_Symmetrize ==
    /\ gmm_pc = "sampled"
    /\ LET cont == G_continuous(gmm_args) IN
       IF cont = "NameError"
       THEN /\ gmm_pc' = "NameError"
            /\ UNCHANGED gmm_self
       ELSE IF cont = "True"
       THEN /\ gmm_pc' = "NotImplementedError"
            /\ UNCHANGED gmm_self
       ELSE IF module_G = "unbound"
       THEN \* line 66: the name G is not defined
            /\ gmm_pc' = "NameError"
            /\ UNCHANGED gmm_self
       ELSE LET grp == gmm_args.group
                gs == NonIdentity(module_G)
                means == <<gmm_self.means>> \o
                    [k \in 1..Len(gs) |->
                        EinsumMeans(rep(grp, gs[k]), gmm_self.means)]
                Cxs == <<gmm_self.covariances_x>> \o
                    [k \in 1..Len(gs) |->
                        EinsumCov(rep_X(grp, gs[k]), gmm_self.covariances_x,
                                  rep_X(grp, Inverse(module_G, gs[k])))]
                Cys == <<gmm_self.covariances_y>> \o
                    [k \in 1..Len(gs) |->
                        EinsumCov(rep_Y(grp, gs[k]), gmm_self.covariances_y,
                                  rep_Y(grp, Inverse(module_G, gs[k])))]
            IN  /\ gmm_self' = [gmm_self EXCEPT
                      !.n_kernels = gmm_args.n_kernels * Order(module_G),
                      !.means = Concatenate(means),
                      !.covariances_x = Concatenate(Cxs),
                      !.covariances_y = Concatenate(Cys),
                      !.weights = Renormalize(Concatenate(
                          [k \in 1..Order(module_G) |-> gmm_self.weights]))]
                /\ gmm_pc' = "symmetrized"
    /\ UNCHANGED <<module_G, gmm_args, gmm_built>>
    /\ UNCHANGED notGMM

\* lines 83-100: the joint covariances, the frozen Gaussians and the data
\* statistics, which draw from the data stream
GMM_Finish ==
    /\ gmm_pc = "symmetrized"
    /\ gmm_self' = [gmm_self EXCEPT
          !.random_state = Advance(gmm_self.random_state, 1)]
    /\ gmm_pc' = "constructed"
    /\ UNCHANGED <<module_G, gmm_args, gmm_built>>
    /\ UNCHANGED notGMM

GMMNext ==
    \/ GMM_Begin
    \/ GMM_Sample
    \/ GMM_Symmetrize
    \/ GMM_Finish


(***************************************************************************)
(*                       THE OPERATOR MODEL (model.py)                     *)
(*                                                                         *)
(* Tensors are not computed.  The parameters of self.models are known by   *)
(* the number of optimizer steps that made them; a gradient, an encoder    *)
(* output and a loss are known by the parameters they were computed from   *)
(* and how (which split, which mode, with or without gradient tracking);   *)
(* a data set is known by its name.                                        *)
(***************************************************************************)
\* most epochs one fit call asks for
MaxEpochs == 2
\* most epochs all the fit calls on the object run
MaxTotalEpochs == 3

\* an optional argument: None, or a value
NoneArg == <<>>
Some(v) == <<v>>

DataSets == {"A", "B"}
Unset == "unset"

\* DeepSVD.__init__ (lines 13-26) with gamma = 0.; a new Module is in
\* training mode
NewDeepSVD ==
    [models |-> [U |-> 0, S |-> 0, V |-> 0],
     training |-> TRUE,
     grad |-> [set |-> FALSE, at |-> 0],
     losses |-> <<>>,
     val_losses |-> <<>>,
     gamma |-> 0,
     seed |-> NoneArg,
     training_X |-> Unset,
     training_Y |-> Unset]

\* no fit call in progress; run counts the passes of the loop of line 62
\* that all the fit calls have completed
NoFit(run) ==
    [X |-> Unset, Y |-> Unset, X_val |-> Unset, Y_val |-> Unset,
     epochs |-> 0, i |-> 0, run |-> run,
     z |-> Unset, l |-> Unset, val_z |-> Unset, val_l |-> Unset]

NoCall == [method |-> "none", X_test |-> Unset, postprocessing |-> FALSE,
           result |-> "none"]

SVDInit ==
    /\ svd = NewDeepSVD
    /\ svd_pc = "idle"
    /\ svd_fit = NoFit(0)
    /\ svd_call = NoCall

\* self.models.train() and self.models.eval()
models_train(m) == TRUE
models_eval(m) == FALSE
\* the eval() that opens postprocess_UV and postprocess_UV_tmp
postprocess_eval_forgotten(m) == m
postprocess_eval(m) == models_eval(m)

\* whether line 96 records the validation loss of epoch i
val_loss_recorded_every_other(i) == i % 2 = 0
val_loss_recorded(i) == TRUE

\* optimizer.step(): parameters with a gradient move
optimizer_step_twice(models, grad) ==
    IF grad.set
    THEN [U |-> models.U + 2, S |-> models.S + 2, V |-> models.V + 2]
    ELSE models
optimizer_step(models, grad) ==
    IF grad.set
    THEN [U |-> models.U + 1, S |-> models.S + 1, V |-> models.V + 1]
    ELSE models

\* lines 32-58: the overrides, the optimizer, the splits, save_after_training
SVD_FitBegin ==
    /\ svd_pc = "idle"
    /\ \E data \in DataSets, epochs \in 0..MaxEpochs,
          gamma \in {NoneArg, Some(1)}, sd \in {NoneArg, Some(1)} :
         /\ svd_fit.run + epochs <= MaxTotalEpochs
         /\ svd' = [svd EXCEPT
                !.gamma = IF gamma # NoneArg THEN gamma[1] ELSE svd.gamma,
                !.seed = IF sd # NoneArg THEN sd ELSE Some(0),
                !.training_X = data,
                !.training_Y = data]
         /\ svd_fit' = [NoFit(svd_fit.run) EXCEPT
                !.X = data, !.Y = data, !.X_val = "V", !.Y_val = "V",
                !.epochs = epochs]
    /\ svd_call' = [NoCall EXCEPT !.method = "fit", !.result = "running"]
    /\ svd_pc' = "for"
    /\ UNCHANGED notSVD

\* line 62: the next epoch, or the end of fit
SVD_For ==
    /\ svd_pc = "for"
    /\ IF svd_fit.i < svd_fit.epochs
       THEN /\ svd_pc' = "zero_grad"
            /\ UNCHANGED <<svd_fit, svd_call>>
       ELSE /\ svd_pc' = "idle"
            /\ svd_fit' = NoFit(svd_fit.run)
            /\ svd_call' = [svd_call EXCEPT !.result = "ok"]
    /\ UNCHANGED svd
    /\ UNCHANGED notSVD

\* lines 64-65
SVD_ZeroGradTrain ==
    /\ svd_pc = "zero_grad"
    /\ svd' = [svd EXCEPT !.grad = [set |-> FALSE, at |-> 0],
                          !.training = models_train(svd.training)]
    /\ svd_pc' = "forward"
    /\ UNCHANGED <<svd_fit, svd_call>>
    /\ UNCHANGED notSVD

\* lines 67-70: the encoders on the two training halves
SVD_Forward ==
    /\ svd_pc = "forward"
    /\ svd_fit' = [svd_fit EXCEPT !.z =
          [at |-> svd.models.U, split |-> "train", data |-> svd_fit.X,
           training |-> svd.training, tracked |-> TRUE]]
    /\ svd_pc' = "loss"
    /\ UNCHANGED <<svd, svd_call>>
    /\ UNCHANGED notSVD

\* lines 81-82
SVD_Loss ==
    /\ svd_pc = "loss"
    /\ svd_fit' = [svd_fit EXCEPT !.l =
          [at |-> svd_fit.z.at, split |-> svd_fit.z.split,
           gamma |-> svd.gamma, tracked |-> svd_fit.z.tracked]]
    /\ svd_pc' = "backward"
    /\ UNCHANGED <<svd, svd_call>>
    /\ UNCHANGED notSVD

\* line 83
SVD_Backward ==
    /\ svd_pc = "backward"
    /\ svd' = [svd EXCEPT !.grad = [set |-> TRUE, at |-> svd_fit.l.at]]
    /\ svd_pc' = "step"
    /\ UNCHANGED <<svd_fit, svd_call>>
    /\ UNCHANGED notSVD

\* line 84
SVD_Step ==
    /\ svd_pc = "step"
    /\ svd' = [svd EXCEPT !.models = optimizer_step(svd.models, svd.grad)]
    /\ svd_pc' = "append_loss"
    /\ UNCHANGED <<svd_fit, svd_call>>
    /\ UNCHANGED notSVD

\* lines 85-86
SVD_AppendLoss ==
    /\ svd_pc = "append_loss"
    /\ svd' = [svd EXCEPT !.losses = Append(svd.losses, svd_fit.l)]
    /\ svd_pc' = "eval"
    /\ UNCHANGED <<svd_fit, svd_call>>
    /\ UNCHANGED notSVD

\* lines 89-90
SVD_Eval ==
    /\ svd_pc = "eval"
    /\ svd' = [svd EXCEPT !.training = models_eval(svd.training)]
    /\ svd_pc' = "val_forward"
    /\ UNCHANGED <<svd_fit, svd_call>>
    /\ UNCHANGED notSVD

\* lines 91-94: the encoders on the two validation halves, under no_grad
SVD_ValForward ==
    /\ svd_pc = "val_forward"
    /\ svd_fit' = [svd_fit EXCEPT !.val_z =
          [at |-> svd.models.U, split |-> "val", data |-> svd_fit.X_val,
           training |-> svd.training, tracked |-> FALSE]]
    /\ svd_pc' = "val_loss"
    /\ UNCHANGED <<svd, svd_call>>
    /\ UNCHANGED notSVD

\* line 95
SVD_ValLoss ==
    /\ svd_pc = "val_loss"
    /\ svd_fit' = [svd_fit EXCEPT !.val_l =
          [at |-> svd_fit.val_z.at, split |-> svd_fit.val_z.split,
           gamma |-> svd.gamma, tracked |-> svd_fit.val_z.tracked]]
    /\ svd_pc' = "append_val"
    /\ UNCHANGED <<svd, svd_call>>
    /\ UNCHANGED notSVD

\* lines 96-106: the validation loss is logged and the epoch ends
SVD_AppendVal ==
    /\ svd_pc = "append_val"
    /\ svd' = [svd EXCEPT !.val_losses =
          IF val_loss_recorded(svd_fit.i)
          THEN Append(svd.val_losses, svd_fit.val_l)
          ELSE svd.val_losses]
    /\ svd_fit' = [svd_fit EXCEPT !.i = svd_fit.i + 1,
                                  !.run = svd_fit.run + 1]
    /\ svd_pc' = "for"
    /\ UNCHANGED svd_call
    /\ UNCHANGED notSVD

\* ------------------------------------------------------------ the queries
IsFitted == svd.training_X # Unset

\* postprocess_UV (lines 168-213) and postprocess_UV_tmp (lines 215-264) as
\* they act on the object: eval(), then AttributeError at the first read of
\* self.training_X when fit never ran
postprocess_UV(obj) == [obj EXCEPT !.training = postprocess_eval(obj.training)]
postprocess_UV_tmp(obj) ==
    [obj EXCEPT !.training = postprocess_eval(obj.training)]

QueryResult == IF IsFitted THEN "ok" ELSE "AttributeError"

\* postprocess_UV(X_test), lines 168-213
SVD_PostprocessUV ==
    /\ svd_pc = "idle"
    /\ \E X_test \in DataSets \cup {"Q", "None"} :
         svd_call' = [method |-> "postprocess_UV", X_test |-> X_test,
                      postprocessing |-> TRUE, result |-> QueryResult]
    /\ svd' = postprocess_UV(svd)
    /\ UNCHANGED <<svd_pc, svd_fit>>
    /\ UNCHANGED notSVD

\* postprocess_UV_tmp(X_test), lines 215-264
SVD_PostprocessUVTmp ==
    /\ svd_pc = "idle"
    /\ \E X_test \in DataSets \cup {"Q"} :
         svd_call' = [method |-> "postprocess_UV_tmp", X_test |-> X_test,
                      postprocessing |-> FALSE, result |-> QueryResult]
    /\ svd' = postprocess_UV_tmp(svd)
    /\ UNCHANGED <<svd_pc, svd_fit>>
    /\ UNCHANGED notSVD

\* predict(X_test, observable, postprocessing), lines 115-128
SVD_Predict ==
    /\ svd_pc = "idle"
    /\ \E X_test \in DataSets \cup {"Q"}, pp \in BOOLEAN :
         /\ svd_call' = [method |-> "predict", X_test |-> X_test,
                         postprocessing |-> pp, result |-> QueryResult]
         /\ svd' = IF pp THEN postprocess_UV(svd) ELSE postprocess_UV_tmp(svd)
    /\ UNCHANGED <<svd_pc, svd_fit>>
    /\ UNCHANGED notSVD

\* conditional_probability(interval_A, interval_B, postprocessing), lines
\* 130-146: line 131 reads self.training_Y before anything else
SVD_ConditionalProbability ==
    /\ svd_pc = "idle"
    /\ \E pp \in BOOLEAN :
         /\ svd_call' = [method |-> "conditional_probability",
                         X_test |-> svd.training_X,
                         postprocessing |-> pp, result |-> QueryResult]
         /\ svd' = IF ~IsFitted THEN svd
                   ELSE IF pp THEN postprocess_UV(svd)
                   ELSE postprocess_UV_tmp(svd)
    /\ UNCHANGED <<svd_pc, svd_fit>>
    /\ UNCHANGED notSVD

\* joint_probability(interval_A, interval_B, postprocessing), lines 148-164
SVD_JointProbability ==
    /\ svd_pc = "idle"
    /\ \E pp \in BOOLEAN :
         /\ svd_call' = [method |-> "joint_probability",
                         X_test |-> svd.training_X,
                         postprocessing |-> pp, result |-> QueryResult]
         /\ svd' = IF ~IsFitted THEN svd
                   ELSE IF pp THEN postprocess_UV(svd)
                   ELSE postprocess_UV_tmp(svd)
    /\ UNCHANGED <<svd_pc, svd_fit>>
    /\ UNCHANGED notSVD

SVDNext ==
    \/ SVD_FitBegin
    \/ SVD_For
    \/ SVD_ZeroGradTrain
    \/ SVD_Forward
    \/ SVD_Loss
    \/ SVD_Backward
    \/ SVD_Step
    \/ SVD_AppendLoss
    \/ SVD_Eval
    \/ SVD_ValForward
    \/ SVD_ValLoss
    \/ SVD_AppendVal
    \/ SVD_PostprocessUV
    \/ SVD_PostprocessUVTmp
    \/ SVD_Predict
    \/ SVD_ConditionalProbability
    \/ SVD_JointProbability

(***************************************************************************)
(*                  THE CONSTRUCTOR OF MLP (nn/layers.py)                  *)
(***************************************************************************)
\* most hidden layers a call asks for
MaxHidden == 2

LayerWidths == {4, 5}

\* layer_size is an int or a list of ints
IntSize(k) == [type |-> "int", int |-> k, list |-> <<>>]
ListSize(l) == [type |-> "list", int |-> 0, list |-> l]
LayerSizes ==
    {IntSize(k) : k \in LayerWidths}
      \cup {ListSize(l) : l \in UNION {[1..m -> LayerWidths] : m \in 1..MaxHidden}}

\* the layers, by their constructor arguments
Linear(in, out, bias) ==
    [kind |-> "Linear", in |-> in, out |-> out, bias |-> bias, dropout |-> 0]
\* MLPBlock (lines 12-23): Linear(in, out, bias=True), Dropout, ReLU
MLPBlock(in, out, dropout) ==
    [kind |-> "MLPBlock", in |-> in, out |-> out, bias |-> TRUE,
     dropout |-> dropout]
IterativeWhitening(input_size) ==
    [kind |-> "IterativeWhitening", in |-> input_size, out |-> input_size,
     bias |-> FALSE, dropout |-> 0]

NoMLPArgs ==
    [input_shape |-> 0, n_hidden |-> 0, layer_size |-> IntSize(0),
     output_shape |-> 0, dropout |-> 0, iterative_whitening |-> FALSE]
NoIW == [input_size |-> 0, newton_iterations |-> 0, module_init |-> FALSE,
         buffers |-> {}]

MLPIdle ==
    /\ mlp_pc = "none"
    /\ mlp_args = NoMLPArgs
    /\ mlp_layer_size = <<>>
    /\ mlp_layer = 0
    /\ mlp_layers = <<>>
    /\ iw_self = NoIW

\* lines 28-29: an int is repeated n_hidden times
Broadcast(layer_size, n_hidden) ==
    IF layer_size.type = "int"
    THEN [k \in 1..n_hidden |-> layer_size.int]
    ELSE layer_size.list

\* whether IterativeWhitening.__init__ (lines 78-82) runs Module.__init__
\* before it registers its buffers
IterativeWhitening_super_init == FALSE

MLPTerminal == {"done", "AttributeError", "IndexError"}

\* lines 26-29
MLP_Begin ==
    /\ mlp_pc \in {"none"} \cup MLPTerminal
    /\ \E input_shape \in 1..2, n_hidden \in 0..MaxHidden,
          layer_size \in LayerSizes, output_shape \in {1, 3},
          iterative_whitening \in BOOLEAN :
         /\ mlp_args' = [input_shape |-> input_shape, n_hidden |-> n_hidden,
                         layer_size |-> layer_size,
                         output_shape |-> output_shape, dropout |-> 0,
                         iterative_whitening |-> iterative_whitening]
         /\ mlp_layer_size' = Broadcast(layer_size, n_hidden)
    /\ mlp_pc' = "if"
    /\ mlp_layer' = 0
    /\ mlp_layers' = <<>>
    /\ iw_self' = NoIW
    /\ UNCHANGED notMLP

\* lines 30-31
MLP_NoHidden ==
    /\ mlp_pc = "if"
    /\ mlp_args.n_hidden = 0
    /\ mlp_layers' = <<Linear(mlp_args.input_shape, mlp_args.output_shape, FALSE)>>
    /\ mlp_pc' = "sequential"
    /\ UNCHANGED <<mlp_args, mlp_layer_size, mlp_layer, iw_self>>
    /\ UNCHANGED notMLP

\* lines 32-33
MLP_Else ==
    /\ mlp_pc = "if"
    /\ mlp_args.n_hidden # 0
    /\ mlp_layers' = <<>>
    /\ mlp_layer' = 0
    /\ mlp_pc' = "for"
    /\ UNCHANGED <<mlp_args, mlp_layer_size, iw_self>>
    /\ UNCHANGED notMLP

\* lines 34-38: one pass of the loop; layer_size[layer] of a list that is
\* too short is an IndexError
MLP_Block ==
    /\ mlp_pc = "for"
    /\ mlp_layer < mlp_args.n_hidden
    /\ IF mlp_layer + 1 > Len(mlp_layer_size)
       THEN /\ mlp_pc' = "IndexError"
            /\ UNCHANGED <<mlp_layers, mlp_layer>>
       ELSE /\ mlp_layers' = Append(mlp_layers,
                 IF mlp_layer = 0
                 THEN MLPBlock(mlp_args.input_shape,
                               mlp_layer_size[mlp_layer + 1], mlp_args.dropout)
                 ELSE MLPBlock(mlp_layer_size[mlp_layer],
                               mlp_layer_size[mlp_layer + 1], mlp_args.dropout))
            /\ mlp_layer' = mlp_layer + 1
            /\ mlp_pc' = "for"
    /\ UNCHANGED <<mlp_args, mlp_layer_size, iw_self>>
    /\ UNCHANGED notMLP

\* lines 40-41: the final linear map, then the test of iterative_whitening
MLP_Linear ==
    /\ mlp_pc = "for"
    /\ mlp_layer = mlp_args.n_hidden
    /\ mlp_layers' = Append(mlp_layers,
          Linear(mlp_layer_size[Len(mlp_layer_size)], mlp_args.output_shape,
                 FALSE))
    /\ mlp_pc' = IF mlp_args.iterative_whitening THEN "whiten"
                 ELSE "sequential"
    /\ UNCHANGED <<mlp_args, mlp_layer_size, mlp_layer, iw_self>>
    /\ UNCHANGED notMLP

\* IterativeWhitening.__init__, lines 78-82: plain attributes
IW_Init ==
    /\ mlp_pc = "whiten"
    /\ iw_self' = [input_size |-> mlp_args.output_shape,
                   newton_iterations |-> 5,
                   module_init |-> IterativeWhitening_super_init,
                   buffers |-> {}]
    /\ mlp_pc' = "register_buffer"
    /\ UNCHANGED <<mlp_args, mlp_layer_size, mlp_layer, mlp_layers>>
    /\ UNCHANGED notMLP

\* lines 84-85 and line 42: register_buffer on an object whose
\* Module.__init__ never ran raises AttributeError
IW_RegisterBuffer ==
    /\ mlp_pc = "register_buffer"
    /\ IF iw_self.module_init
       THEN /\ iw_self' = [iw_self EXCEPT
                  !.buffers = {"running_mean", "running_whitening_mat"}]
            /\ mlp_layers' = Append(mlp_layers,
                                    IterativeWhitening(iw_self.input_size))
            /\ mlp_pc' = "sequential"
       ELSE /\ mlp_pc' = "AttributeError"
            /\ UNCHANGED <<iw_self, mlp_layers>>
    /\ UNCHANGED <<mlp_args, mlp_layer_size, mlp_layer>>
    /\ UNCHANGED notMLP

\* line 43
MLP_Sequential ==
    /\ mlp_pc = "sequential"
    /\ mlp_pc' = "done"
    /\ UNCHANGED <<mlp_args, mlp_layer_size, mlp_layer, mlp_layers, iw_self>>
    /\ UNCHANGED notMLP

MLPNext ==
    \/ MLP_Begin
    \/ MLP_NoHidden
    \/ MLP_Else
    \/ MLP_Block
    \/ MLP_Linear
    \/ IW_Init
    \/ IW_RegisterBuffer
    \/ MLP_Sequential

(***************************************************************************)
(*              THE ITERATIVE-WHITENING LAYER (nn/layers.py)               *)
(*                                                                         *)
(* A batch is known by its number of dimensions, its second dimension and  *)
(* one number standing for its content; numbers are exact fractions.       *)
(***************************************************************************)
\* largest input_size and largest second dimension of a batch
MaxWidth == 2
\* most forward calls on one layer
MaxForwards == 2

FracMul(a, b) == Frac(a[1] * b[1], a[2] * b[2])
FracSub(a, b) == Frac(a[1] * b[2] - b[1] * a[2], a[2] * b[2])
One == <<1, 1>>
Zero == <<0, 1>>

\* momentum=0.1 (line 78)
momentum == <<1, 10>>

\* the batches the model feeds: X.dim() in 1..3, X.shape[1] (none for a 1-D
\* tensor), and the batch mean
Batches ==
    {[ndim |-> d, width |-> w, mean |-> <<m, 1>>] :
        d \in 1..3, w \in 1..MaxWidth, m \in 1..2}

NoIWLayer == [built |-> FALSE, input_size |-> 0, module_init |-> FALSE,
              running_mean |-> Zero, running_whitening_mat |-> Zero,
              forwards |-> 0]
NoBatch == [ndim |-> 0, width |-> 0, mean |-> Zero]
NoIWCall == [X |-> NoBatch, ret |-> <<>>, out |-> Zero]

IWIdle ==
    /\ iw = NoIWLayer
    /\ iw_pc = "none"
    /\ iw_call = NoIWCall

IWInit ==
    /\ python_O \in BOOLEAN
    /\ IWIdle

\* X.dim == 2 (line 88): X.dim is a bound method, never equal to 2
X_dim_is_2(X) == FALSE

\* the check of line 89 and what line 90 does when it fails: the ValueError
\* is returned, not raised
width_mismatch(e) == [raised |-> FALSE, value |-> e]

\* the positional arguments of the call of _update_running_stats at line
\* 105: the one value _compute_whitening_matrix returned
update_args(ret) == <<ret>>

\* lines 78-85, called directly: register_buffer without Module.__init__
IW_New ==
    /\ iw_pc \in {"none", "AttributeError"}
    /\ ~iw.built
    /\ \E n \in 1..MaxWidth :
         iw' = [NoIWLayer EXCEPT !.input_size = n,
                                 !.module_init = IterativeWhitening_super_init]
    /\ iw_pc' = "AttributeError"
    /\ UNCHANGED <<python_O, iw_call>>
    /\ UNCHANGED notIW

\* lines 78-85 called by the __init__ of a subclass that has run
\* Module.__init__ itself: the two buffers start at zero
IW_NewBySubclass ==
    /\ iw_pc \in {"none", "AttributeError"}
    /\ ~iw.built
    /\ \E n \in 1..MaxWidth :
         iw' = [NoIWLayer EXCEPT !.built = TRUE, !.input_size = n,
                                 !.module_init = TRUE]
    /\ iw_pc' = "ready"
    /\ UNCHANGED <<python_O, iw_call>>
    /\ UNCHANGED notIW

IWReturned == {"returned", "AssertionError", "IndexError", "RuntimeError",
               "TypeError"}

\* forward(X), line 104
IW_Forward ==
    /\ iw_pc \in {"ready"} \cup IWReturned
    /\ iw.built
    /\ iw.forwards < MaxForwards
    /\ \E X \in Batches : iw_call' = [NoIWCall EXCEPT !.X = X]
    /\ iw' = [iw EXCEPT !.forwards = iw.forwards + 1]
    /\ iw_pc' = "assert"
    /\ UNCHANGED python_O
    /\ UNCHANGED notIW

\* line 88
IW_Assert ==
    /\ iw_pc = "assert"
    /\ iw_pc' = IF python_O \/ X_dim_is_2(iw_call.X) THEN "check"
                ELSE "AssertionError"
    /\ UNCHANGED <<python_O, iw, iw_call>>
    /\ UNCHANGED notIW

\* lines 89-90: X.shape[1] of a 1-D tensor is an IndexError
IW_Check ==
    /\ iw_pc = "check"
    /\ IF iw_call.X.ndim < 2
       THEN /\ iw_pc' = "IndexError"
            /\ UNCHANGED iw_call
       ELSE IF iw_call.X.width # iw.input_size
       THEN LET r == width_mismatch("ValueError") IN
            IF r.raised
            THEN /\ iw_pc' = "ValueError"
                 /\ UNCHANGED iw_call
            ELSE /\ iw_pc' = "update"
                 /\ iw_call' = [iw_call EXCEPT !.ret = <<r.value>>]
       ELSE /\ iw_pc' = "compute"
            /\ UNCHANGED iw_call
    /\ UNCHANGED <<python_O, iw>>
    /\ UNCHANGED notIW

\* lines 91-98: torch.cov takes at most two dimensions; the whitening
\* matrix of a batch stands as one number made from the batch
IW_Compute ==
    /\ iw_pc = "compute"
    /\ IF iw_call.X.ndim > 2
       THEN /\ iw_pc' = "RuntimeError"
            /\ UNCHANGED iw_call
       ELSE /\ iw_pc' = "update"
            /\ iw_call' = [iw_call EXCEPT !.ret =
                  <<iw_call.X.mean, FracAdd(iw_call.X.mean, One)>>]
    /\ UNCHANGED <<python_O, iw>>
    /\ UNCHANGED notIW

\* lines 105-106 and lines 100-102: _update_running_stats(mean,
\* whitening_mat) called with the arguments of update_args, then the
\* whitened batch is returned
IW_UpdateRunningStats ==
    /\ iw_pc = "update"
    /\ LET args == update_args(iw_call.ret) IN
       IF Len(args) # 2
       THEN /\ iw_pc' = "TypeError"
            /\ UNCHANGED <<iw, iw_call>>
       ELSE LET mean == FracAdd(FracMul(momentum, args[1]),
                          FracMul(FracSub(One, momentum), iw.running_mean))
                mat == FracAdd(FracMul(momentum, args[2]),
                          FracMul(FracSub(One, momentum),
                                  iw.running_whitening_mat))
            IN  /\ iw' = [iw EXCEPT !.running_mean = mean,
                                    !.running_whitening_mat = mat]
                /\ iw_call' = [iw_call EXCEPT !.out =
                      FracMul(FracSub(iw_call.X.mean, mean), mat)]
                /\ iw_pc' = "returned"
    /\ UNCHANGED python_O
    /\ UNCHANGED notIW

IWNext ==
    \/ IW_New
    \/ IW_NewBySubclass
    \/ IW_Forward
    \/ IW_Assert
    \/ IW_Check
    \/ IW_Compute
    \/ IW_UpdateRunningStats

(***************************************************************************)
(*            THE VALUES THE QUERIES COMPUTE (model.py, 115-307)           *)
(*                                                                         *)
(* Numbers are exact fractions with the two non-finite values of floating  *)
(* point added.  The unit is the machine epsilon of the default dtype.     *)
(***************************************************************************)
\* ------------------------------------------------------------ floats
Fin(f) == [k |-> "fin", v |-> f]
Inf == [k |-> "inf", v |-> Zero]
NaN == [k |-> "nan", v |-> Zero]
FInt(i) == Fin(<<i, 1>>)
IsFinite(x) == x.k = "fin"
IsZero(x) == x.k = "fin" /\ x.v[1] = 0

\* x + y and x * y of IEEE arithmetic (no negative infinity arises)
FAdd(x, y) ==
    IF x.k = "nan" \/ y.k = "nan" THEN NaN
    ELSE IF x.k = "inf" \/ y.k = "inf" THEN Inf
    ELSE Fin(FracAdd(x.v, y.v))
FMul(x, y) ==
    IF x.k = "nan" \/ y.k = "nan" THEN NaN
    ELSE IF x.k = "inf" \/ y.k = "inf"
    THEN (IF IsZero(x) \/ IsZero(y) THEN NaN ELSE Inf)
    ELSE Fin(FracMul(x.v, y.v))
\* x ** -1 of a numpy float: 0.0 ** -1 is inf (with a RuntimeWarning)
FInv(x) ==
    IF x.k = "nan" THEN NaN
    ELSE IF x.k = "inf" THEN FInt(0)
    ELSE IF x.v[1] = 0 THEN Inf
    ELSE Fin(Frac(x.v[2], x.v[1]))

\* np.sum of a sequence of floats; the sum of no element is 0
RECURSIVE FSum(_)
FSum(q) == IF q = <<>> THEN FInt(0) ELSE FAdd(q[1], FSum(Tail(q)))
\* np.mean: the mean of no element is nan (with a RuntimeWarning)
FMean(q) == IF q = <<>> THEN NaN ELSE FMul(FSum(q), Fin(<<1, Len(q)>>))

\* ------------------------------------------------------------ the filter
\* torch.finfo(torch.get_default_dtype()).eps, the unit
finfo_eps == 1
\* eps of line 267
filter_eps == 2 * finfo_eps

\* the positions of a sequence of booleans that hold
RECURSIVE Keep(_, _)
Keep(q, mask) ==
    IF q = <<>> THEN <<>>
    ELSE (IF mask[1] THEN <<q[1]>> ELSE <<>>) \o Keep(Tail(q), Tail(mask))

\* _filter_reduced_rank_svals (lines 266-289).  values is a 1-D tensor:
\* [complex, v] with v a sequence of [re, im]; vectors is a matrix known by
\* its columns: [complex, cols], a column being [of, im] (the candidate it
\* belongs to, whether it has a nonzero imaginary part).
filter_reduced_rank_svals(values, vectors) ==
    LET k == Len(values.v)
        small == [j \in 1..k |-> Abs(values.v[j].re) <= filter_eps]
    IN  IF ~values.complex
        THEN \* the mask has one entry per value
             LET keep == [j \in 1..k |-> ~small[j]]
                 any == \E j \in 1..k : small[j]
             IN  [status |-> "ok",
                  values |-> [j \in 1..Len(IF any THEN Keep(values.v, keep)
                                           ELSE values.v) |->
                                (IF any THEN Keep(values.v, keep)
                                 ELSE values.v)[j].re],
                  vectors |-> [j \in 1..Len(IF any THEN Keep(vectors.cols, keep)
                                            ELSE vectors.cols) |->
                                (IF any THEN Keep(vectors.cols, keep)
                                 ELSE vectors.cols)[j].of]]
        ELSE IF ~vectors.complex
        THEN \* torch.imag of a real tensor
             [status |-> "RuntimeError", values |-> <<>>, vectors |-> <<>>]
        ELSE \* the mask is a matrix, one entry per entry of vectors
             LET any == \/ \E j \in 1..k : small[j]
                        \/ \E j \in 1..Len(vectors.cols) : vectors.cols[j].im
             IN  IF any
                 THEN \* values[~is_invalid]: a 2-D mask on a 1-D tensor
                      [status |-> "IndexError", values |-> <<>>,
                       vectors |-> <<>>]
                 ELSE [status |-> "ok",
                       values |-> [j \in 1..k |-> values.v[j].re],
                       vectors |-> [j \in 1..Len(vectors.cols) |->
                                      vectors.cols[j].of]]

\* ------------------------------------------------------------ the calls
\* most candidates in a direct call of the filter
MaxCandidates == 2

NoTensor == [complex |-> FALSE, v |-> <<>>]
NoMatrix == [complex |-> FALSE, cols |-> <<>>]
NoQCall == [method |-> "none", values |-> NoTensor, vectors |-> NoMatrix,
            X_test |-> [given |-> FALSE, rows |-> <<>>],
            postprocessing |-> FALSE,
            interval_A |-> <<0, 0>>, interval_B |-> <<0, 0>>,
            eigh |-> <<>>]
NoQRet == [status |-> "none", values |-> <<>>, vectors |-> <<>>,
           Ux |-> <<>>, sing_val |-> <<>>, Vy |-> <<>>, out |-> <<>>]

\* the tensors a direct call of the filter is given: magnitudes at, below
\* and above eps, negative ones, and complex ones
RealEntries == {[re |-> r, im |-> 0] : r \in {0, filter_eps, filter_eps + 1, -4}}
ComplexEntries == RealEntries \cup {[re |-> 0, im |-> 4], [re |-> 4, im |-> 4]}
Tensors ==
    UNION {{[complex |-> FALSE, v |-> v] : v \in [1..k -> RealEntries]}
             \cup {[complex |-> TRUE, v |-> v] : v \in [1..k -> ComplexEntries]}
           : k \in 0..MaxCandidates}
\* the eigenvector matrices: column j belongs to candidate j
Matrices(k) ==
    {[complex |-> FALSE, cols |-> [j \in 1..k |-> [of |-> j, im |-> FALSE]]]}
      \cup {[complex |-> TRUE, cols |-> [j \in 1..k |-> [of |-> j, im |-> im[j]]]]
            : im \in [1..k -> BOOLEAN]}

NoQModel == [d |-> 0, arrays |-> "none",
            training_X |-> <<>>, training_Y |-> <<>>,
             U |-> <<>>, V |-> <<>>, sigma |-> <<>>]

QIdle ==
    /\ q_model = NoQModel
    /\ q_call = NoQCall
    /\ q_ret = NoQRet

\* self._filter_reduced_rank_svals(values, vectors) called directly
Q_Filter ==
    /\ q_call.method = "none"
    /\ \E values \in Tensors : \E vectors \in Matrices(Len(values.v)) :
         /\ vectors.complex = values.complex
         /\ q_call' = [NoQCall EXCEPT !.method = "_filter_reduced_rank_svals",
                                      !.values = values, !.vectors = vectors]
         /\ q_ret' = filter_reduced_rank_svals(values, vectors)
    /\ UNCHANGED q_model
    /\ UNCHANGED notQ

\* ------------------------------------------------------------ a fitted model
\* most features of an encoder
MaxFeatures == 2
\* the points of the X and of the Y space
Points == 1..2

FNeg(x) == FMul(FInt(-1), x)
Half == Fin(<<1, 2>>)

\* the fitted objects: the training arrays fit retains as it was given them
\* (numpy arrays or tensors), the two encoders as functions from points to
\* feature rows, and sigma = sqrt(exp(-weights ** 2)) of the singular
\* layer, 1 or less
QModels ==
    UNION {{[d |-> d, arrays |-> a,
             training_X |-> <<1, 2>>, training_Y |-> <<1, 2>>,
             U |-> U,
             V |-> [y \in Points |-> [i \in 1..d |-> FInt(2 * y * i)]],
             sigma |-> [i \in 1..d |-> sg]] :
              U \in [Points -> [1..d -> {FInt(0), FInt(2)}]],
              sg \in {FInt(1), Half}, a \in {"ndarray", "Tensor"}}
           : d \in 1..MaxFeatures}

QInit ==
    /\ q_model \in QModels
    /\ q_call = NoQCall
    /\ q_ret = NoQRet

\* self.models['U'](X): one feature row per row of X
Encode(enc, X) == [k \in 1..Len(X) |-> enc[X[k]]]

\* Ux - torch.outer(torch.mean(Ux, axis=-1), torch.ones(Ux.shape[-1]))
CenterFeatures(Z) ==
    [k \in 1..Len(Z) |-> [i \in 1..Len(Z[k]) |->
        FAdd(Z[k][i], FNeg(FMean(Z[k])))]]
\* Ux @ torch.diag(sigma)
ScaleFeatures(Z, sigma) ==
    [k \in 1..Len(Z) |-> [i \in 1..Len(Z[k]) |-> FMul(Z[k][i], sigma[i])]]
\* lines 178-186: the cached training features
TrainingFeatures(enc, X, sigma) ==
    LET Z == Encode(enc, X) IN
    ScaleFeatures(IF Len(sigma) > 1 THEN CenterFeatures(Z) ELSE Z, sigma)

\* lines 203-206: the features of the query points, before the projection
\* of line 208
QueryFeatures(m, X_test) == Encode(m.U, X_test)

\* Z @ P for the projection P of lines 208-209.  The decomposition of
\* lines 188-201 is not computed: the eigenvalues torch.linalg.eigh returns
\* are an input, and the projection keeps the columns of the survivors.
Project(Z, cols) ==
    [k \in 1..Len(Z) |-> [j \in 1..Len(cols) |-> Z[k][cols[j]]]]

\* torch.sqrt of an eigenvalue
Sqrt(v) == IF v < 0 THEN NaN ELSE FInt(CHOOSE r \in 0..v : r * r = v)

\* the eigenvalues torch.linalg.eigh returns, ascending: at most eps, or
\* the squares 4 and 16
Eigenvalues(d) ==
    {e \in [1..d -> {0, filter_eps, 4, 16}] :
        \A i, j \in 1..d : i <= j => e[i] <= e[j]}

\* postprocess_UV (lines 168-213)
postprocess_UV_values(m, X_test, eigh) ==
    LET Ux == TrainingFeatures(m.U, m.training_X, m.sigma)
        Vy == TrainingFeatures(m.V, m.training_Y, m.sigma)
        f == filter_reduced_rank_svals(
                 [complex |-> FALSE,
                  v |-> [j \in 1..m.d |-> [re |-> eigh[j], im |-> 0]]],
                 [complex |-> FALSE,
                  cols |-> [j \in 1..m.d |-> [of |-> j, im |-> FALSE]]])
        pre == IF X_test.given THEN QueryFeatures(m, X_test.rows) ELSE Ux
    IN  [NoQRet EXCEPT
           !.status = "ok",
           !.Ux = Project(pre, f.vectors),
           !.sing_val = [j \in 1..Len(f.values) |-> Sqrt(f.values[j])],
           !.Vy = Project(Vy, f.vectors)]

\* postprocess_UV_tmp (lines 215-264)
postprocess_UV_tmp_values(m, X_test) ==
    [NoQRet EXCEPT
       !.status = "ok",
       !.Ux = Encode(m.U, X_test.rows),
       !.sing_val = m.sigma,
       !.Vy = Encode(m.V, m.training_Y)]

\* lines 116-119, 134-137 and 152-155
Postprocessed(m, X_test, postprocessing, eigh) ==
    IF postprocessing THEN postprocess_UV_values(m, X_test, eigh)
    ELSE postprocess_UV_tmp_values(m, X_test)

\* indicator_fn (lines 306-307)
indicator_fn(x, interval) ==
    [k \in 1..Len(x) |-> interval[1] <= x[k] /\ x[k] <= interval[2]]
\* .mean() of a boolean mask is defined for a numpy array; torch refuses
\* the mean of a tensor of booleans with a RuntimeError
mask_mean_defined(arrays) == arrays = "ndarray"
\* the mean of a boolean mask
Rate(mask) == FMean([k \in 1..Len(mask) |-> IF mask[k] THEN FInt(1) ELSE FInt(0)])
\* Z[mask, :].sum(axis=0) * n ** -1
MaskedMean(Z, mask, n, r) ==
    [i \in 1..r |->
        FMul(FSum([k \in 1..Len(Z) |-> IF mask[k] THEN Z[k][i] ELSE FInt(0)]),
             Fin(<<1, n>>))]

\* predict (lines 115-128) with the default observable
predict_values(m, X_test, postprocessing, eigh) ==
    LET p == Postprocessed(m, X_test, postprocessing, eigh)
        r == Len(p.sing_val)
        n == Len(m.training_Y)
        fY == [k \in 1..n |-> [i \in 1..r |-> FInt(m.training_Y[k])]]
        bias == FMean(Concatenate(fY))
        Vy_fY == [i \in 1..r |->
                    FMean([k \in 1..n |-> FMul(p.Vy[k][i], fY[k][i])])]
    IN  [p EXCEPT !.out =
           [t \in 1..Len(p.Ux) |->
              FAdd(bias, FSum([i \in 1..r |->
                  FMul(FMul(p.sing_val[i], p.Ux[t][i]), Vy_fY[i])]))]]

\* conditional_probability (lines 130-146)
conditional_probability_values(m, interval_A, interval_B, postprocessing, eigh) ==
    LET p == Postprocessed(m, [given |-> TRUE, rows |-> m.training_X],
                           postprocessing, eigh)
        r == Len(p.sing_val)
        n == Len(m.training_Y)
        x_A == indicator_fn(m.training_X, interval_A)
        y_B == indicator_fn(m.training_Y, interval_B)
        Ux_A == MaskedMean(p.Ux, x_A, n, r)
        Vy_B == MaskedMean(p.Vy, y_B, n, r)
    IN  IF ~mask_mean_defined(m.arrays)
        THEN [NoQRet EXCEPT !.status = "RuntimeError"]
        ELSE [p EXCEPT !.out =
           <<FAdd(Rate(y_B), FSum([i \in 1..r |->
                FMul(FMul(FMul(p.sing_val[i], Ux_A[i]), FInv(Rate(x_A))),
                     Vy_B[i])]))>>]

\* joint_probability (lines 148-164)
joint_probability_values(m, interval_A, interval_B, postprocessing, eigh) ==
    LET p == Postprocessed(m, [given |-> TRUE, rows |-> m.training_X],
                           postprocessing, eigh)
        r == Len(p.sing_val)
        n == Len(m.training_Y)
        x_A == indicator_fn(m.training_X, interval_A)
        y_B == indicator_fn(m.training_Y, interval_B)
        Ux_A == MaskedMean(p.Ux, x_A, n, r)
        Vy_B == MaskedMean(p.Vy, y_B, n, r)
    IN  IF ~mask_mean_defined(m.arrays)
        THEN [NoQRet EXCEPT !.status = "RuntimeError"]
        ELSE [p EXCEPT !.out =
           <<FAdd(FInt(1), FSum([i \in 1..r |->
                FMul(FMul(FMul(FMul(p.sing_val[i], Ux_A[i]), FInv(Rate(x_A))),
                          Vy_B[i]), FInv(Rate(y_B)))]))>>]

\* the arguments the model calls with
QueryPoints == {[given |-> TRUE, rows |-> <<1, 2>>],
                [given |-> TRUE, rows |-> <<2, 2>>]}
Intervals == {<<0, 0>>, <<1, 1>>, <<1, 2>>}

Q_PostprocessUV ==
    /\ q_call.method = "none"
    /\ \E X_test \in QueryPoints \cup {[given |-> FALSE, rows |-> <<>>]},
          eigh \in Eigenvalues(q_model.d) :
         /\ q_call' = [NoQCall EXCEPT !.method = "postprocess_UV",
                          !.X_test = X_test, !.postprocessing = TRUE,
                          !.eigh = eigh]
         /\ q_ret' = postprocess_UV_values(q_model, X_test, eigh)
    /\ UNCHANGED q_model
    /\ UNCHANGED notQ

Q_Predict ==
    /\ q_call.method = "none"
    /\ \E X_test \in QueryPoints, postprocessing \in BOOLEAN,
          eigh \in Eigenvalues(q_model.d) :
         /\ q_call' = [NoQCall EXCEPT !.method = "predict",
                          !.X_test = X_test,
                          !.postprocessing = postprocessing, !.eigh = eigh]
         /\ q_ret' = predict_values(q_model, X_test, postprocessing, eigh)
    /\ UNCHANGED q_model
    /\ UNCHANGED notQ

Q_ConditionalProbability ==
    /\ q_call.method = "none"
    /\ \E A \in Intervals, B \in Intervals, postprocessing \in BOOLEAN,
          eigh \in Eigenvalues(q_model.d) :
         /\ q_call' = [NoQCall EXCEPT !.method = "conditional_probability",
                          !.interval_A = A, !.interval_B = B,
                          !.postprocessing = postprocessing, !.eigh = eigh]
         /\ q_ret' = conditional_probability_values(q_model, A, B,
                                                    postprocessing, eigh)
    /\ UNCHANGED q_model
    /\ UNCHANGED notQ

Q_JointProbability ==
    /\ q_call.method = "none"
    /\ \E A \in Intervals, B \in Intervals, postprocessing \in BOOLEAN,
          eigh \in Eigenvalues(q_model.d) :
         /\ q_call' = [NoQCall EXCEPT !.method = "joint_probability",
                          !.interval_A = A, !.interval_B = B,
                          !.postprocessing = postprocessing, !.eigh = eigh]
         /\ q_ret' = joint_probability_values(q_model, A, B,
                                              postprocessing, eigh)
    /\ UNCHANGED q_model
    /\ UNCHANGED notQ

QNext ==
    \/ Q_Filter
    \/ Q_PostprocessUV
    \/ Q_Predict
    \/ Q_ConditionalProbability
    \/ Q_JointProbability

(***************************************************************************)
(*            THE DATA OF A KMN SWEEP (KMN_benchmarks.py, 23-52)           *)
(*                                                                         *)
(* Rows are not drawn.  A pool of samples is known by the simulator class, *)
(* the random_seed the simulator was built with, the number of samples     *)
(* asked of simulate and the seed of the permutation applied to it: the    *)
(* simulators draw from a generator seeded with random_seed, so two pools  *)
(* of the same name hold the same rows.  A slice of a pool is the range    *)
(* [lo, hi) of the row indices it keeps.                                   *)
(***************************************************************************)
\* n_val = int(1e3)
KMN_n_val == 1000
\* the last element of a list: l[-1]
Last(l) == l[Len(l)]
\* n_samples of line 43
KMN_simulate_n_max_only == Last(KMN_n_training_samples)
KMN_simulate_n == Last(KMN_n_training_samples) + KMN_n_val

Max(a, b) == IF a >= b THEN a ELSE b
\* X[:n] and X[-k:] of an array of len rows (n >= 0, k > 0)
SliceHead(len, n) == [lo |-> 0, hi |-> Min(n, len)]
SliceTail(len, k) == [lo |-> Max(len - k, 0), hi |-> len]

\* the (n, seed) pairs in the order the sweep visits them
RECURSIVE SweepOrder(_, _)
SweepOrder(i, s) ==
    IF i > Len(KMN_n_training_samples) THEN <<>>
    ELSE IF s >= KMN_seed_end THEN SweepOrder(i + 1, 0)
    ELSE <<[n |-> KMN_n_training_samples[i], seed |-> s]>>
         \o SweepOrder(i, s + 1)
\* the table a sweep stopped after k pairs has written
RECURSIVE WrittenAfter(_)
WrittenAfter(k) ==
    IF k = 0 THEN <<>>
    ELSE WrittenAfter(k - 1)
         \o KMN_result(SweepOrder(1, 0)[k].n, SweepOrder(1, 0)[k].seed)

NoPool == [cls |-> "none", random_seed |-> 0, n_samples |-> 0,
           permuted |-> NoneArg]
NoSlice == [lo |-> 0, hi |-> 0]
NoData == [pool |-> NoPool, X_train |-> NoSlice, X_val |-> NoSlice]
SplitIdle ==
    /\ sp = [cls |-> "none", results_df |-> <<>>, n_idx |-> 0, seed |-> 0,
             pc |-> "idle"]
    /\ sp_data = NoData
    /\ sp_hist = {}

\* lines 20-32: a sweep of a simulator class starts from the table it loads
SplitInit ==
    /\ \E cls \in Classes, k \in 0..Len(SweepOrder(1, 0)) :
         sp = [cls |-> cls, results_df |-> WrittenAfter(k), n_idx |-> 1,
               seed |-> 0, pc |-> "seed_loop"]
    /\ sp_data = NoData
    /\ sp_hist = {}

\* lines 35-39: a recorded (n, seed) is skipped
Split_Skip ==
    /\ sp.pc = "seed_loop"
    /\ sp.n_idx <= Len(KMN_n_training_samples)
    /\ sp.seed < KMN_seed_end
    /\ KMN_recorded(sp.results_df, KMN_n_training_samples[sp.n_idx], sp.seed)
    /\ sp' = [sp EXCEPT !.seed = sp.seed + 1]
    /\ UNCHANGED <<sp_data, sp_hist>>
    /\ UNCHANGED notSplit

\* lines 41-43: the simulator is built with random_seed = seed and asked
\* for the largest n plus n_val samples
Split_Simulate ==
    /\ sp.pc = "seed_loop"
    /\ sp.n_idx <= Len(KMN_n_training_samples)
    /\ sp.seed < KMN_seed_end
    /\ ~KMN_recorded(sp.results_df, KMN_n_training_samples[sp.n_idx], sp.seed)
    /\ sp_data' = [NoData EXCEPT !.pool =
          [cls |-> sp.cls, random_seed |-> sp.seed,
           n_samples |-> KMN_simulate_n, permuted |-> NoneArg]]
    /\ sp' = [sp EXCEPT !.pc = "simulated"]
    /\ UNCHANGED sp_hist
    /\ UNCHANGED notSplit

\* lines 44-47: the samples of ArmaJump are permuted, the permutation drawn
\* after np.random.seed(random_seed)
Split_Permute ==
    /\ sp.pc = "simulated"
    /\ sp_data' = [sp_data EXCEPT !.pool.permuted =
          IF sp.cls = "ArmaJump" THEN Some(sp_data.pool.random_seed)
          ELSE sp_data.pool.permuted]
    /\ sp' = [sp EXCEPT !.pc = "split"]
    /\ UNCHANGED sp_hist
    /\ UNCHANGED notSplit

\* lines 48-52: the split; the rest of the pass (lines 53-118) fits and
\* scores on it and is left to the other parts
Split_Slice ==
    /\ sp.pc = "split"
    /\ LET n == KMN_n_training_samples[sp.n_idx]
           d == [sp_data EXCEPT
                   !.X_train = SliceHead(sp_data.pool.n_samples, n),
                   !.X_val = SliceTail(sp_data.pool.n_samples, KMN_n_val)]
       IN  /\ sp_data' = d
           /\ sp_hist' = sp_hist \cup
                 {[n |-> n, seed |-> sp.seed, pool |-> d.pool,
                   X_train |-> d.X_train, X_val |-> d.X_val]}
    /\ sp' = [sp EXCEPT !.pc = "seed_loop", !.seed = sp.seed + 1]
    /\ UNCHANGED notSplit

\* line 35: the seeds of this n are done
Split_SeedsDone ==
    /\ sp.pc = "seed_loop"
    /\ sp.n_idx <= Len(KMN_n_training_samples)
    /\ sp.seed >= KMN_seed_end
    /\ sp' = [sp EXCEPT !.n_idx = sp.n_idx + 1, !.seed = 0]
    /\ UNCHANGED <<sp_data, sp_hist>>
    /\ UNCHANGED notSplit

\* line 32: the ladder is done
Split_Done ==
    /\ sp.pc = "seed_loop"
    /\ sp.n_idx > Len(KMN_n_training_samples)
    /\ sp' = [sp EXCEPT !.pc = "done"]
    /\ UNCHANGED <<sp_data, sp_hist>>
    /\ UNCHANGED notSplit

SplitNext ==
    \/ Split_Skip
    \/ Split_Simulate
    \/ Split_Permute
    \/ Split_Slice
    \/ Split_SeedsDone
    \/ Split_Done

(***************************************************************************)
(*      CONCURRENT KMN SWEEPS AND THE BEST-MODEL CHECKPOINT (66-73)        *)
(*                                                                         *)
(* The estimator's fit is not part of the sources; what it does with       *)
(* dataset_name is taken from the specification: it persists the best      *)
(* model in the working directory as <dataset_name>_best_model.pt.  A      *)
(* checkpoint is known by the process and the pass that wrote it.          *)
(***************************************************************************)
\* the processes
Procs == 1..2
\* how many (n, seed) passes a sweep makes
MaxPasses == 2

\* the command lines of the sweeps
Ckpt_flags == KMN_flags \cup {"LGGMD"}

\* the file fit(dataset_name=...) persists the best model in
fit_checkpoint_path(dataset_name) == <<dataset_name, "_best_model.pt">>
\* density_simulator().__class__.__name__ + '_best_model.pt' of line 72
load_checkpoint_path_fixed(cls) == <<"KMN", "_best_model.pt">>
load_checkpoint_path(cls) == <<cls, "_best_model.pt">>

CkptPaths ==
    {fit_checkpoint_path(c) : c \in Classes}
    \cup {load_checkpoint_path(c) : c \in Classes}
    \cup {load_checkpoint_path_fixed(c) : c \in Classes}

NoCheckpoint == [written |-> FALSE, by |-> 0, pass |-> 0]
NoProc == [pc |-> "idle", flag |-> NoFlag, cls |-> "unset", pass |-> 0,
           wrote |-> {}, read |-> {}, best_estimator |-> NoCheckpoint]

CkptIdle ==
    /\ ck_fs = [f \in CkptPaths |-> NoCheckpoint]
    /\ ck_proc = [q \in Procs |-> NoProc]

\* python KMN_benchmarks.py [--dataset flag], in the shared directory
Ckpt_Launch ==
    \E q \in Procs, flag \in Ckpt_flags :
       /\ ck_proc[q].pc = "idle"
       /\ ck_proc' = [ck_proc EXCEPT ![q] =
             [NoProc EXCEPT !.pc = "main", !.flag = flag]]
       /\ UNCHANGED ck_fs
       /\ UNCHANGED notCkpt

\* lines 121-150: the simulator class of the dataset
Ckpt_Main ==
    \E q \in Procs :
       /\ ck_proc[q].pc = "main"
       /\ LET cls == KMN_select(KMN_args_dataset(ck_proc[q].flag)) IN
            ck_proc' = [ck_proc EXCEPT ![q] =
               IF cls = "ValueError"
               THEN [@ EXCEPT !.pc = "ValueError"]
               ELSE [@ EXCEPT !.pc = "fit", !.cls = cls]]
       /\ UNCHANGED ck_fs
       /\ UNCHANGED notCkpt

\* line 71: model.fit(..., dataset_name=<class name>) persists its best
\* model
Ckpt_Fit ==
    \E q \in Procs :
       /\ ck_proc[q].pc = "fit"
       /\ LET path == fit_checkpoint_path(ck_proc[q].cls) IN
            /\ ck_fs' = [ck_fs EXCEPT ![path] =
                  [written |-> TRUE, by |-> q, pass |-> ck_proc[q].pass]]
            /\ ck_proc' = [ck_proc EXCEPT ![q] =
                  [@ EXCEPT !.pc = "load", !.wrote = @ \cup {path}]]
       /\ UNCHANGED notCkpt

\* lines 72-73: torch.load of the checkpoint; a missing file is fatal
Ckpt_Load ==
    \E q \in Procs :
       /\ ck_proc[q].pc = "load"
       /\ LET path == load_checkpoint_path(ck_proc[q].cls) IN
            ck_proc' = [ck_proc EXCEPT ![q] =
               IF ck_fs[path].written
               THEN [@ EXCEPT !.pc = "loaded", !.read = @ \cup {path},
                              !.best_estimator = ck_fs[path]]
               ELSE [@ EXCEPT !.pc = "FileNotFoundError",
                              !.read = @ \cup {path}]]
       /\ UNCHANGED ck_fs
       /\ UNCHANGED notCkpt

\* lines 75-118 and the loops of lines 32-35: the next pass, or the end
Ckpt_Next ==
    \E q \in Procs :
       /\ ck_proc[q].pc = "loaded"
       /\ ck_proc' = [ck_proc EXCEPT ![q] =
             IF @.pass + 1 < MaxPasses
             THEN [@ EXCEPT !.pc = "fit", !.pass = @ + 1]
             ELSE [@ EXCEPT !.pc = "done", !.pass = @ + 1]]
       /\ UNCHANGED ck_fs
       /\ UNCHANGED notCkpt

CkptNext ==
    \/ Ckpt_Launch
    \/ Ckpt_Main
    \/ Ckpt_Fit
    \/ Ckpt_Load
    \/ Ckpt_Next

(***************************************************************************)
(*                         THE SPECIFICATIONS                              *)
(***************************************************************************)
\* the benchmark drivers
Init == DriverInit /\ module_G = "unbound" /\ GMMIdle /\ SVDInit /\ MLPIdle /\ python_O = FALSE /\ IWIdle /\ QIdle /\ SplitIdle /\ CkptIdle
Next == DriverNext
Spec == Init /\ [][Next]_vars

\* the simulator's constructor
InitGMM == GMMInit /\ DriverInit /\ SVDInit /\ MLPIdle /\ python_O = FALSE /\ IWIdle /\ QIdle /\ SplitIdle /\ CkptIdle
NextGMM == GMMNext
SpecGMM == InitGMM /\ [][NextGMM]_vars

InitSVD == SVDInit /\ DriverInit /\ module_G = "unbound" /\ GMMIdle /\ MLPIdle /\ python_O = FALSE /\ IWIdle /\ QIdle /\ SplitIdle /\ CkptIdle
NextSVD == SVDNext
SpecSVD == InitSVD /\ [][NextSVD]_vars

InitMLP == MLPIdle /\ DriverInit /\ module_G = "unbound" /\ GMMIdle /\ SVDInit /\ python_O = FALSE /\ IWIdle /\ QIdle /\ SplitIdle /\ CkptIdle
NextMLP == MLPNext
SpecMLP == InitMLP /\ [][NextMLP]_vars

InitIW == IWInit /\ DriverInit /\ module_G = "unbound" /\ GMMIdle /\ SVDInit /\ MLPIdle /\ QIdle /\ SplitIdle /\ CkptIdle
NextIW == IWNext
SpecIW == InitIW /\ [][NextIW]_vars

InitQ == QInit /\ DriverInit /\ module_G = "unbound" /\ GMMIdle /\ SVDInit /\ MLPIdle /\ python_O = FALSE /\ IWIdle /\ SplitIdle /\ CkptIdle
NextQ == QNext
SpecQ == InitQ /\ [][NextQ]_vars

\* the data of a KMN sweep
InitSplit == SplitInit /\ DriverInit /\ module_G = "unbound" /\ GMMIdle /\ SVDInit /\ MLPIdle /\ python_O = FALSE /\ IWIdle /\ QIdle /\ CkptIdle
NextSplit == SplitNext
SpecSplit == InitSplit /\ [][NextSplit]_vars

\* concurrent KMN sweeps
InitCkpt == CkptIdle /\ DriverInit /\ module_G = "unbound" /\ GMMIdle /\ SVDInit /\ MLPIdle /\ python_O = FALSE /\ IWIdle /\ QIdle /\ SplitIdle
NextCkpt == CkptNext
SpecCkpt == InitCkpt /\ [][NextCkpt]_vars

(***************************************************************************)
(*                              THE CLAIMS                                 *)
(***************************************************************************)
\* the (n_samples, seed) pairs a table has rows for
PairsIn(df) == {<<df[i].n_samples, df[i].seed>> : i \in 1..Len(df)}

\* the positions a process is at after its start-up load
AfterLoad == {"n_loop", "seed_loop", "fitted", "to_pickle", "writing", "done"}

\* C1: in the NCP driver a pair that has rows in the table loaded at start-up
\* is never fitted again, and no NCP result file ever holds two rows with the
\* same (n_samples, seed, postprocess), whatever runs and interruptions
\* came before.
C1_ResumeSkipsRecorded ==
    /\ script = "NCP" => \A p \in fitted : p \notin PairsIn(loaded)
    /\ \A c \in Classes :
         LET f == fs[NCP_save_path(c)] IN
           f.kind = "table" =>
             \A i, j \in 1..Len(f.rows) :
                (/\ f.rows[i].n_samples = f.rows[j].n_samples
                 /\ f.rows[i].seed = f.rows[j].seed
                 /\ f.rows[i].postprocess = f.rows[j].postprocess) => i = j

\* a resumed NCP sweep that skipped what it loaded, fitted the rest and
\* persisted the longer table
C1_Witness ==
    /\ script = "NCP" /\ pc = "done"
    /\ Len(loaded) > 0
    /\ Len(results_df) > Len(loaded)
    /\ fitted # {}
    /\ fs[NCP_save_path(density_simulator)] = Table(results_df)

\* C2: a KMN sweep started over a table that an earlier sweep persisted loads
\* that table, fits none of its pairs again and keeps its rows in what it
\* persists (checked up to the sweep's first write, while the persisted file
\* is still the earlier sweep's).
C2_KMNResumes ==
    (/\ script = "KMN"
     /\ pc \in AfterLoad
     /\ "to_pickle" \notin effects
     /\ fs[KMN_save_path(density_simulator)].kind = "table")
    => LET earlier == fs[KMN_save_path(density_simulator)].rows IN
         /\ loaded = earlier
         /\ \A p \in fitted : p \notin PairsIn(earlier)
         /\ Len(results_df) >= Len(earlier)
         /\ SubSeq(results_df, 1, Len(earlier)) = earlier

\* the recognized --dataset values as the specification lists them
C3_NCP_datasets == {"econ", "gaussian_mixture", "linear_gaussian", "arma_jump",
                    "skew_normal", "linear_student_t"}
C3_KMN_datasets == C3_NCP_datasets \cup {"LGGMD"}
C3_Unrecognized ==
    \/ script = "NCP"
         /\ (argv_dataset = NoFlag \/ argv_dataset \notin C3_NCP_datasets)
    \/ script = "KMN"
         /\ argv_dataset # NoFlag /\ argv_dataset \notin C3_KMN_datasets

\* C3: a process whose --dataset is outside its driver's recognized set (or,
\* for the NCP driver, missing) never gets past __main__: it is still there,
\* has raised ValueError('Unknown dataset') or was killed there, and has
\* built no simulator, touched no result file and trained no model.
C3_UnknownDatasetIsFatal ==
    C3_Unrecognized =>
        /\ pc \in {"main", "ValueError", "killed"}
        /\ effects = {}
        /\ fitted = {}
        /\ density_simulator = "unset"

\* the NCP driver started without --dataset has ended with the error
C3_Witness ==
    /\ script = "NCP" /\ argv_dataset = NoFlag /\ pc = "ValueError"

(***************************************************************************)
(* The simulator (specification SpecGMM).                                  *)
(***************************************************************************)
GMMCalled == gmm_pc # "none"
GMMReturned == {"constructed", "NameError", "NotImplementedError"}

\* C4: a constructor call with representations of a continuous group never
\* gets past the test of line 64 other than by NotImplementedError: it ends
\* in no other way and no instance comes out of it, whatever the kernel
\* count, means_std and random_seed.
C4_ContinuousNotImplemented ==
    (GMMCalled /\ Group(gmm_args.group).continuous)
    => gmm_pc \in {"init", "sampled", "NotImplementedError"}
C4_Witness ==
    /\ gmm_pc = "NotImplementedError"
    /\ Group(gmm_args.group).continuous
    /\ module_G = "unbound"

\* the kernel i of an instance
Kernel(self, i) ==
    [mean |-> self.means[i], Cx |-> self.covariances_x[i],
     Cy |-> self.covariances_y[i], weight |-> self.weights[i]]
\* the kernel k moved by the element g of the group
Moved(grp, g, k) ==
    [mean |-> MatVec(rep(grp, g), k.mean),
     Cx |-> MatMul(MatMul(rep_X(grp, g), k.Cx), rep_X(grp, Inverse(grp, g))),
     Cy |-> MatMul(MatMul(rep_Y(grp, g), k.Cy), rep_Y(grp, Inverse(grp, g))),
     weight |-> k.weight]
ClosedUnderAction(self, grp) ==
    LET n == Len(self.means)
        kernels == {Kernel(self, i) : i \in 1..n}
    IN  \A k \in kernels : \A j \in 1..Order(grp) :
          Moved(grp, Group(grp).elements[j], k) \in kernels
SizedFor(self, n) ==
    /\ self.n_kernels = n
    /\ Len(self.means) = n
    /\ Len(self.covariances_x) = n
    /\ Len(self.covariances_y) = n
    /\ Len(self.weights) = n

\* the part of C5 that holds: an instance that is constructed has
\* n x |G| kernels, closed under the action of the group
C5_ConstructedIsSymmetric ==
    gmm_pc = "constructed"
    => /\ SizedFor(gmm_self, gmm_args.n_kernels * Order(gmm_args.group))
       /\ ClosedUnderAction(gmm_self, gmm_args.group)

\* C5: a constructor call with n kernels and representations of a finite
\* group succeeds, and the instance has n x |G| means, X-covariances,
\* Y-covariances and weights, closed under the action of the group.
C5_FiniteGroupSymmetrizes ==
    (gmm_pc \in GMMReturned /\ ~Group(gmm_args.group).continuous)
    => /\ gmm_pc = "constructed"
       /\ SizedFor(gmm_self, gmm_args.n_kernels * Order(gmm_args.group))
       /\ ClosedUnderAction(gmm_self, gmm_args.group)

\* a weight vector of length n: no negative entry, entries summing to 1
IsDistribution(w, n) ==
    /\ Len(w) = n
    /\ \A i \in 1..n : w[i][1] >= 0 /\ w[i][2] > 0
    /\ SumFracs(w) = <<1, 1>>

\* C6: the weights are non-negative and sum to 1 when first sampled (n of
\* them) and after the symmetrization (n x |G| of them, the copy of kernel i
\* for each group element carrying the sampled weight of i divided by |G|).
C6_WeightsSumToOne ==
    [][/\ gmm_pc' = "sampled"
            => IsDistribution(gmm_self'.weights, gmm_args'.n_kernels)
       /\ (gmm_pc = "sampled" /\ gmm_pc' = "symmetrized")
            => LET n == gmm_args.n_kernels
                   order == Order(gmm_args.group)
               IN  /\ IsDistribution(gmm_self'.weights, n * order)
                   /\ \A c \in 0..(order - 1) : \A i \in 1..n :
                        gmm_self'.weights[c * n + i]
                          = FracDiv(gmm_self.weights[i], <<order, 1>>)
       /\ gmm_pc' = "constructed"
            => IsDistribution(gmm_self'.weights,
                              gmm_args.n_kernels * Order(gmm_args.group))
      ]_vars
C6_Witness ==
    /\ gmm_pc = "symmetrized"
    /\ gmm_args.group = "C4"
    /\ gmm_args.n_kernels = 2
    /\ Len(gmm_self.weights) = 8
    /\ gmm_self.weights[1] # gmm_self.weights[2]

\* C7: two simulators built with the same n_kernels, rep_X, rep_Y and
\* means_std have the same weights, means and covariances, whatever their
\* random_seed.
C7_ParamsIgnoreDataSeed ==
    (/\ gmm_pc = "constructed"
     /\ gmm_built.built
     /\ gmm_built.args.n_kernels = gmm_args.n_kernels
     /\ gmm_built.args.group = gmm_args.group
     /\ gmm_built.args.means_std = gmm_args.means_std)
    => /\ gmm_built.weights = gmm_self.weights
       /\ gmm_built.means = gmm_self.means
       /\ gmm_built.covariances_x = gmm_self.covariances_x
       /\ gmm_built.covariances_y = gmm_self.covariances_y
C7_Witness ==
    /\ gmm_pc = "constructed"
    /\ gmm_built.built
    /\ gmm_built.args.n_kernels = gmm_args.n_kernels
    /\ gmm_built.args.group = gmm_args.group
    /\ gmm_built.args.means_std = gmm_args.means_std
    /\ gmm_built.args.random_seed # gmm_args.random_seed
    /\ gmm_self.random_state.seed # gmm_built.args.random_seed
    /\ gmm_self.n_kernels > 2

(***************************************************************************)
(* The operator model (specification SpecSVD).                             *)
(***************************************************************************)
\* the positions of an epoch before and after line 85
BeforeAppendLoss == {"zero_grad", "forward", "loss", "backward", "step",
                     "append_loss"}
AfterAppendLoss == {"eval", "val_forward", "val_loss", "append_val"}

\* C8: between fit calls and at the head of every epoch the two loss logs
\* have the same length, the number of epochs run so far by all the fit
\* calls; inside an epoch the training log is one entry ahead from line 85
\* until the validation loss of the same epoch is appended at line 96; and
\* a fit call returns after exactly the epochs it was asked for.
C8_OneValidationLossPerEpoch ==
    /\ svd_fit.i <= svd_fit.epochs
    /\ svd_pc \in {"idle", "for"} \cup BeforeAppendLoss
         => /\ Len(svd.losses) = svd_fit.run
            /\ Len(svd.val_losses) = svd_fit.run
    /\ svd_pc \in AfterAppendLoss
         => /\ Len(svd.losses) = svd_fit.run + 1
            /\ Len(svd.val_losses) = svd_fit.run
    /\ svd_pc \in BeforeAppendLoss \cup AfterAppendLoss
         => svd_fit.i < svd_fit.epochs
C8_Witness ==
    /\ svd_pc = "idle"
    /\ svd_call.method = "fit"
    /\ svd_call.result = "ok"
    /\ Len(svd.losses) = MaxTotalEpochs
    /\ Len(svd.val_losses) = MaxTotalEpochs
    /\ svd.losses[1].gamma # svd.losses[MaxTotalEpochs].gamma

C9_Queries == {"predict", "conditional_probability", "joint_probability",
               "postprocess_UV", "postprocess_UV_tmp"}

\* C9: a call of predict, conditional_probability, joint_probability,
\* postprocess_UV or postprocess_UV_tmp on a fitted object leaves the
\* parameters, the gradients, the two loss logs, gamma, the seed and the
\* retained training X and Y as they were, and leaves the model in
\* evaluation mode.
C9_QueriesAreReadOnly ==
    [][(/\ svd_pc = "idle"
        /\ svd_pc' = "idle"
        /\ svd_call'.method \in C9_Queries
        /\ svd.training_X # Unset)
       => /\ svd'.models = svd.models
          /\ svd'.grad = svd.grad
          /\ svd'.losses = svd.losses
          /\ svd'.val_losses = svd.val_losses
          /\ svd'.gamma = svd.gamma
          /\ svd'.seed = svd.seed
          /\ svd'.training_X = svd.training_X
          /\ svd'.training_Y = svd.training_Y
          /\ svd'.training = FALSE
          /\ svd_call'.result = "ok"
      ]_vars
\* a query has returned on an object that a fit call of no epochs left in
\* training mode
C9_Witness ==
    /\ svd_pc = "idle"
    /\ svd_call.method \in C9_Queries
    /\ svd_call.result = "ok"
    /\ svd.training_X # Unset
    /\ svd.losses = <<>>
    /\ ~svd.training

(***************************************************************************)
(* The constructor of MLP (specification SpecMLP).                         *)
(***************************************************************************)
\* layer_size is an int, or a list of n_hidden widths
C10_WellFormed(a) ==
    a.layer_size.type = "int" \/ Len(a.layer_size.list) = a.n_hidden

C10_Width(a, k) ==
    IF a.layer_size.type = "int" THEN a.layer_size.int ELSE a.layer_size.list[k]

\* the layer sequence the specification describes
C10_Expected(a) ==
    LET blocks == [k \in 1..a.n_hidden |->
                     MLPBlock(IF k = 1 THEN a.input_shape
                              ELSE C10_Width(a, k - 1),
                              C10_Width(a, k), a.dropout)]
        final == Linear(IF a.n_hidden = 0 THEN a.input_shape
                        ELSE C10_Width(a, a.n_hidden),
                        a.output_shape, FALSE)
    IN  blocks \o <<final>>
          \o (IF a.iterative_whitening
              THEN <<IterativeWhitening(a.output_shape)>> ELSE <<>>)

\* C10: the constructor returns, and its layers are the n_hidden blocks
\* (none when n_hidden = 0), the bias-free linear map to output_shape and,
\* whenever iterative_whitening is true, an IterativeWhitening layer of
\* width output_shape as the last layer.
C10_LayerSequence ==
    (mlp_pc \in MLPTerminal /\ C10_WellFormed(mlp_args))
    => /\ mlp_pc = "done"
       /\ mlp_layers = C10_Expected(mlp_args)

\* the part of C10 that holds: without iterative_whitening the layers are
\* the ones described
C10_WithoutWhitening ==
    (/\ mlp_pc \in MLPTerminal
     /\ C10_WellFormed(mlp_args)
     /\ ~mlp_args.iterative_whitening)
    => /\ mlp_pc = "done"
       /\ mlp_layers = C10_Expected(mlp_args)

(***************************************************************************)
(* The iterative-whitening layer (specification SpecIW).                   *)
(***************************************************************************)
\* a 2-D batch whose feature dimension is input_size
IWWellFormed == iw_call.X.ndim = 2 /\ iw_call.X.width = iw.input_size
IWEnded == IWReturned \cup {"ValueError"}

\* C11: a forward call on a 2-D batch of width input_size returns; the
\* running statistics, zero before the first call, are then the average
\* momentum * (statistic of the batch) + (1 - momentum) * (previous value),
\* and the value returned is (X - running_mean) @ running_whitening_mat
\* with the updated statistics.
C11_ForwardAveragesRunningStats ==
    /\ (iw.built /\ iw.forwards = 0)
         => iw.running_mean = Zero /\ iw.running_whitening_mat = Zero
    /\ (iw_pc \in IWEnded /\ IWWellFormed)
         => /\ iw_pc = "returned"
            /\ iw.forwards = 1
                 => /\ iw.running_mean = FracMul(momentum, iw_call.X.mean)
                    /\ iw.running_whitening_mat
                         = FracMul(momentum, FracAdd(iw_call.X.mean, One))
            /\ iw_call.out = FracMul(FracSub(iw_call.X.mean, iw.running_mean),
                                     iw.running_whitening_mat)

\* C12: a forward call fails at the checks of _compute_whitening_matrix
\* (lines 88-90) with the error raised there exactly when the batch is not
\* 2-D or its feature dimension is not input_size.
C12_MalformedInputIsRejected ==
    iw_pc \in IWEnded
    => (~IWWellFormed <=> iw_pc \in {"AssertionError", "ValueError"})

(***************************************************************************)
(* The values of the queries (specification SpecQ).                        *)
(***************************************************************************)
\* candidate j of the call survives: its magnitude is above 2 x machine
\* epsilon and, for complex values, its vector has no imaginary part
C16_Survives(j) ==
    LET e == q_call.values.v[j] IN
    /\ e.re * e.re + e.im * e.im > filter_eps * filter_eps
    /\ q_call.values.complex
         => ~(q_call.vectors.complex /\ q_call.vectors.cols[j].im)
C16_Survivors ==
    SelectSeq([j \in 1..Len(q_call.values.v) |-> j], C16_Survives)

\* C16: the filter returns the real parts of the surviving candidates in
\* their order, and one column per survivor, column j being the vector of
\* survivor j.
C16_FilterKeepsAboveEps ==
    q_call.method = "_filter_reduced_rank_svals"
    => /\ q_ret.status = "ok"
       /\ q_ret.values = [j \in 1..Len(C16_Survivors) |->
                            q_call.values.v[C16_Survivors[j]].re]
       /\ q_ret.vectors = C16_Survivors

\* the part of C16 that holds: real candidates, as torch.linalg.eigh
\* returns them
C16_RealCandidates ==
    (q_call.method = "_filter_reduced_rank_svals" /\ ~q_call.values.complex)
    => /\ q_ret.status = "ok"
       /\ q_ret.values = [j \in 1..Len(C16_Survivors) |->
                            q_call.values.v[C16_Survivors[j]].re]
       /\ q_ret.vectors = C16_Survivors

\* the rank filter of the call kept no component
C13_AllFiltered ==
    /\ q_call.method \in {"predict", "conditional_probability",
                          "joint_probability"}
    /\ q_call.postprocessing
    /\ \A j \in 1..Len(q_call.eigh) : q_call.eigh[j] <= filter_eps

\* C13: when the rank filter of postprocess_UV discards every component,
\* predict, conditional_probability and joint_probability with
\* postprocessing report a failure instead of returning a result computed
\* from no component
C13_EmptyRankIsReported ==
    C13_AllFiltered => q_ret.status # "ok"

\* no training point lies in the interval
C14_Empty(x, interval) ==
    \A k \in 1..Len(x) : ~(interval[1] <= x[k] /\ x[k] <= interval[2])
\* a probability call whose 1/rate factor is not finite
C14_RateIsZero ==
    \/ /\ q_call.method \in {"conditional_probability", "joint_probability"}
       /\ C14_Empty(q_model.training_X, q_call.interval_A)
    \/ /\ q_call.method = "joint_probability"
       /\ C14_Empty(q_model.training_Y, q_call.interval_B)

\* C14: conditional_probability and joint_probability called with an
\* interval that holds no training point end in a failure; they return no
\* number
C14_EmptyIntervalIsReported ==
    C14_RateIsZero => q_ret.status # "ok"

\* the query features treated like the cached training features
C20_Treated(m, X) == TrainingFeatures(m.U, X, m.sigma)
\* the survivors of the rank filter of the call
C20_Kept ==
    LET keep == [j \in 1..Len(q_call.eigh) |-> q_call.eigh[j] > filter_eps]
    IN  Keep([j \in 1..Len(q_call.eigh) |-> j], keep)

\* C20: postprocess_UV centers and scales the encoder output on the query
\* points like the cached training features before it projects it, so that
\* postprocess_UV on the training X returns what postprocess_UV(None)
\* returns
C20_QueryTreatedLikeTraining ==
    (q_call.method = "postprocess_UV" /\ q_call.X_test.given)
    => /\ q_ret.Ux = Project(C20_Treated(q_model, q_call.X_test.rows), C20_Kept)
       /\ q_call.X_test.rows = q_model.training_X
            => q_ret = postprocess_UV_values(q_model,
                           [given |-> FALSE, rows |-> <<>>], q_call.eigh)

\* the steps of one epoch, in the order of the claim
C17_Steps ==
    <<"zero_grad", "forward", "loss", "backward", "step", "append_loss",
      "eval", "val_forward", "val_loss", "append_val", "for">>
C17_At(k) == svd_pc = C17_Steps[k]
\* the parameters after s optimizer steps
C17_Params(s) == [U |-> s, S |-> s, V |-> s]
\* what holds at each step of an epoch that run epochs went before
C17_Epoch ==
    LET run == svd_fit.run IN
    /\ (\E k \in 2..7 : C17_At(k)) => svd.training
    /\ (\E k \in 3..10 : C17_At(k))
         => svd_fit.z = [at |-> run, split |-> "train", data |-> svd_fit.X,
                         training |-> TRUE, tracked |-> TRUE]
    /\ (\E k \in 4..10 : C17_At(k))
         => /\ svd_fit.l.at = run
            /\ svd_fit.l.split = "train"
            /\ svd_fit.l.tracked
    /\ C17_At(5) => svd.grad = [set |-> TRUE, at |-> run]
    /\ (\E k \in 1..5 : C17_At(k)) => svd.models = C17_Params(run)
    /\ (\E k \in 6..10 : C17_At(k)) => svd.models = C17_Params(run + 1)
    /\ (\E k \in 1..6 : C17_At(k)) => Len(svd.losses) = run
    /\ (\E k \in 7..10 : C17_At(k))
         => /\ Len(svd.losses) = run + 1
            /\ svd.losses[run + 1] = svd_fit.l
    /\ (\E k \in 8..10 : C17_At(k)) => ~svd.training
    /\ (\E k \in 9..10 : C17_At(k))
         => svd_fit.val_z = [at |-> run + 1, split |-> "val",
                             data |-> svd_fit.X_val,
                             training |-> FALSE, tracked |-> FALSE]
    /\ (\E k \in 1..10 : C17_At(k)) => Len(svd.val_losses) = run
    /\ svd_pc \in {"for", "idle"}
         => /\ svd.models = C17_Params(run)
            /\ Len(svd.losses) = run
            /\ Len(svd.val_losses) = run
            /\ \A e \in 1..run :
                 /\ svd.losses[e].at = e - 1
                 /\ svd.val_losses[e].at = e
                 /\ svd.val_losses[e].split = "val"
                 /\ ~svd.val_losses[e].tracked
\* the steps follow one another in the order of C17_Steps, and a fit that
\* ran an epoch returns with the model in evaluation mode
C17_Order ==
    /\ \A k \in 1..10 :
         (C17_At(k) /\ svd_pc' # svd_pc) => svd_pc' = C17_Steps[k + 1]
    /\ (svd_pc = "for" /\ svd_pc' = "zero_grad") => svd_fit.i < svd_fit.epochs
    /\ (svd_pc = "for" /\ svd_pc' = "idle" /\ svd_fit.epochs >= 1)
         => ~svd'.training

\* C17: every epoch of fit goes, in this order, through training mode, the
\* forward pass on the training halves, the loss, back-propagation, exactly
\* one optimizer step and the append of the training loss, then evaluation
\* mode and the append of a validation loss computed without gradient
\* tracking from the updated parameters; validation changes no parameter,
\* and a fit of at least one epoch leaves the model in evaluation mode
C17_EpochOrder == [](C17_Epoch) /\ [][C17_Order]_vars
\* a fit of two epochs has returned
C17_Witness ==
    /\ svd_pc = "idle"
    /\ svd_call.method = "fit"
    /\ svd_call.result = "ok"
    /\ svd_fit.run = 2
    /\ Len(svd.val_losses) = 2
    /\ svd.val_losses[2].at = 2
    /\ ~svd.training

\* the rows of a table for one (n_samples, seed)
C19_Rows(rows, n, s) ==
    {i \in 1..Len(rows) : rows[i].n_samples = n /\ rows[i].seed = s}
\* every pair present in the table has its three rows, one per mode
C19_Complete(rows) ==
    \A i \in 1..Len(rows) :
       LET of == C19_Rows(rows, rows[i].n_samples, rows[i].seed) IN
       /\ Cardinality(of) = 3
       /\ {rows[j].postprocess : j \in of} = {"None", "centering", "whitening"}
\* (seed, n_samples, postprocess) is a key
C19_Key(rows) ==
    \A i, j \in 1..Len(rows) :
       (/\ rows[i].seed = rows[j].seed
        /\ rows[i].n_samples = rows[j].n_samples
        /\ rows[i].postprocess = rows[j].postprocess) => i = j

\* C19: at every moment, interruptions and restarts included, every
\* (n_samples, seed) of a persisted NCP table has exactly the three rows of
\* the modes None, centering and whitening, and (seed, n_samples,
\* postprocess) is a key of the table
C19_RowsAllOrNothing ==
    \A c \in Classes :
       fs[NCP_save_path(c)].kind = "table"
       => /\ C19_Complete(fs[NCP_save_path(c)].rows)
          /\ C19_Key(fs[NCP_save_path(c)].rows)
\* an interrupted sweep was restarted from the table it left and is
\* killed again while its table holds more rows than the file
C19_Witness ==
    /\ script = "NCP"
    /\ pc = "killed"
    /\ Len(loaded) >= 3
    /\ Len(results_df) > Len(loaded)
    /\ fs[NCP_save_path(density_simulator)].kind = "table"
    /\ Len(fs[NCP_save_path(density_simulator)].rows) >= 6

\* no row index lies in both slices
C18_Disjoint(a, b) ==
    a.lo >= a.hi \/ b.lo >= b.hi \/ a.hi <= b.lo \/ b.hi <= a.lo
\* slice a is a prefix of slice b of the same pool
C18_Prefix(a, b) == a.lo = b.lo /\ a.hi <= b.hi

\* C18: in the KMN sweep the training rows of every n are the first n rows
\* of the 101000 pooled samples and the validation rows the last 1000, the
\* two are disjoint, and for one seed the pool is the same for all n, so
\* that the training set of a smaller n is a prefix of that of a larger n
\* and the validation set does not depend on n
C18_SplitsNest ==
    /\ \A h \in sp_hist :
         /\ h.pool.n_samples = 101000
         /\ h.X_train = [lo |-> 0, hi |-> h.n]
         /\ h.X_val = [lo |-> 100000, hi |-> 101000]
         /\ C18_Disjoint(h.X_train, h.X_val)
    /\ \A g, h \in sp_hist :
         g.seed = h.seed
         => /\ g.pool = h.pool
            /\ g.X_val = h.X_val
            /\ g.n <= h.n => C18_Prefix(g.X_train, h.X_train)
\* a sweep of the permuted simulator has split the pool of one seed for the
\* smallest and for the largest n
C18_Witness ==
    /\ sp.cls = "ArmaJump"
    /\ sp.pc = "done"
    /\ \E g, h \in sp_hist :
         /\ g.seed = h.seed
         /\ g.n = 100
         /\ h.n = 100000
         /\ g.pool.permuted # NoneArg

\* the checkpoint files a process has written or loaded
C15_Touched(q) == ck_proc[q].wrote \cup ck_proc[q].read
\* the process runs a sweep of a dataset
C15_Sweeps(q) == ck_proc[q].cls # "unset"

\* C15: two concurrent KMN sweeps over different datasets never write or
\* load the same best-model checkpoint file, and each loads what its own
\* fit wrote; two sweeps over the same dataset write and load one and the
\* same file
C15_CheckpointPerDataset ==
    \A q, r \in Procs :
       (q # r /\ C15_Sweeps(q) /\ C15_Sweeps(r))
       => IF ck_proc[q].cls # ck_proc[r].cls
          THEN /\ C15_Touched(q) \cap C15_Touched(r) = {}
               /\ ck_proc[q].best_estimator.written
                    => ck_proc[q].best_estimator.by = q
          ELSE \A f \in C15_Touched(q), g \in C15_Touched(r) : f = g
\* a sweep has loaded the checkpoint that the fit of the other sweep of
\* the same dataset wrote
C15_Witness ==
    \E q, r \in Procs :
       /\ q # r
       /\ ck_proc[q].cls = ck_proc[r].cls
       /\ ck_proc[q].pc = "loaded"
       /\ ck_proc[q].best_estimator.written
       /\ ck_proc[q].best_estimator.by = r

====
